---- MODULE Spec2Model ----
(***************************************************************************)
(* Cache-or-call lookup pipeline of phoneinfo: lookup.py (lookup_me,       *)
(* lookup_sync, check_cache_freshness), the cache tables of db.py, the     *)
(* provider calls of api_me.py / api_sync.py and the /me and /sync REST    *)
(* wrappers (routes/api.py, server.py).                                    *)
(*                                                                         *)
(* Modelling conventions                                                   *)
(*  - a Python dict is a function from string keys to values; {} is the    *)
(*    function with the empty domain; d.get(k, default) is Get(d,k,default)*)
(*  - Python None is the tagged record None; the JSON null inside a        *)
(*    provider response is the string NoneVal                              *)
(*  - a datetime is an integer number of clock ticks, DayLen ticks to the  *)
(*    day; the ISO-8601 text of datetime t is the string ToString(t), so   *)
(*    a stored timestamp is text, like every other column                  *)
(*  - a table is a set of rows; the PRIMARY KEY constraint is what         *)
(*    INSERT OR REPLACE enforces, it is not assumed                        *)
(***************************************************************************)
EXTENDS Integers, Sequences, FiniteSets, TLC

\* ---------------------------------------------------------------- bounds
NumProcs == 2          \* request threads (gunicorn threads)
MaxTime == 3           \* the clock runs from 0 to MaxTime ticks
DayLen == 2            \* clock ticks per day
MaxRefreshDays == 1    \* refresh_days ranges over 0..MaxRefreshDays
MaxLookups == 2        \* lookups started in one behaviour

Procs == 1..NumProcs

\* ---------------------------------------------------------------- values
None == [tag |-> "None"]
NoneVal == "<null>"
EmptyDict == <<>>
NOT_IN_CACHE == "NOT IN CACHE"

Get(d, k, default) == IF k \in DOMAIN d THEN d[k] ELSE default

\* datetime.isoformat / datetime.fromisoformat
IsoFormat(t) == ToString(t)
FromIsoFormat(s) == CHOOSE t \in 0..(MaxTime + 1) : ToString(t) = s

\* (a - b).days of a timedelta: floor division by the length of a day
Days(delta) == delta \div DayLen

\* ---------------------------------------------------------------- HTTP
HTTP_OK == 200
HTTP_NOT_FOUND == 404
HTTP_BAD_REQUEST == 400
HTTP_FORBIDDEN == 403
HTTP_SERVER_ERROR == 500

\* bodies the ME service can answer with (status 200)
MeBodies ==
  { [common_name |-> "Dan Levi", me_profile_name |-> "danl",
     user |-> [first_name |-> "Dan", last_name |-> "Levi", email |-> "dan@x.il"]],
    [common_name |-> "Pizza Roma", me_profile_name |-> NoneVal] }

\* bodies the SYNC service can answer with (status 200)
SyncBodies ==
  { [results |-> [name |-> "Dan Levi", job_hint |-> "cook"]],
    [results |-> [name |-> "Bat El Cohen"]] }

\* an HTTP response: status and, for 200, the decoded JSON body
MeResponses ==
  {[status_code |-> HTTP_OK, json |-> b] : b \in MeBodies}
    \cup {[status_code |-> s, json |-> EmptyDict] : s \in {HTTP_NOT_FOUND, HTTP_SERVER_ERROR}}
SyncResponses ==
  {[status_code |-> HTTP_OK, json |-> b] : b \in SyncBodies}
    \cup {[status_code |-> s, json |-> EmptyDict] :
            s \in {HTTP_NOT_FOUND, HTTP_BAD_REQUEST, HTTP_FORBIDDEN, HTTP_SERVER_ERROR}}

\* call_api: the decoded body on 200, None on 404, an exception otherwise
Raised(msg) == [tag |-> "ValueError", msg |-> msg]
IsRaised(v) == "tag" \in DOMAIN v /\ v.tag = "ValueError"

\* variant: a 404 is an error like any other failed status
me_call_api_404_raises(response) ==
  IF response.status_code = HTTP_OK THEN response.json
  ELSE Raised("API call failed")

me_call_api(response) ==
  IF response.status_code = HTTP_OK THEN response.json
  ELSE IF response.status_code = HTTP_NOT_FOUND THEN None
  ELSE Raised("API call failed")

sync_call_api(response) ==
  IF response.status_code = HTTP_OK THEN response.json
  ELSE IF response.status_code = HTTP_NOT_FOUND THEN None
  ELSE IF response.status_code = HTTP_BAD_REQUEST THEN Raised("Invalid phone number")
  ELSE IF response.status_code = HTTP_FORBIDDEN THEN Raised("API rate limit or request limit reached")
  ELSE Raised("API call failed")

\* ---------------------------------------------------------------- flatten
replace_none(value) == IF value = NoneVal THEN "" ELSE value

me_flatten_user_data(api_result) ==
  LET user_data == Get(api_result, "user", EmptyDict) IN
    [k \in {"me.common_name", "me.profile_name", "me.first_name", "me.last_name",
            "me.email", "me.api_call_time"} |->
       CASE k = "me.common_name" -> replace_none(Get(api_result, "common_name", ""))
         [] k = "me.profile_name" -> replace_none(Get(api_result, "me_profile_name", ""))
         [] k = "me.first_name" -> replace_none(Get(user_data, "first_name", ""))
         [] k = "me.last_name" -> replace_none(Get(user_data, "last_name", ""))
         [] k = "me.email" -> replace_none(Get(user_data, "email", ""))
         [] k = "me.api_call_time" -> ""]

\* str.strip().split(maxsplit=1) on the names the SYNC service returns
SplitMax1(s) ==
  CASE s = "Dan Levi" -> <<"Dan", "Levi">>
    [] s = "Bat El Cohen" -> <<"Bat", "El Cohen">>
    [] s = "" -> <<>>
    [] OTHER -> <<s>>

sync_flatten_user_data(api_result) ==
  LET results == Get(api_result, "results", EmptyDict)
      full_name == LET n == Get(results, "name", "") IN IF n = NoneVal THEN "" ELSE n
      name_parts == SplitMax1(full_name)
      first_name == IF name_parts # <<>> THEN name_parts[1] ELSE ""
      last_name == IF Len(name_parts) > 1 THEN name_parts[2] ELSE ""
  IN [k \in {"sync.name", "sync.first_name", "sync.last_name", "sync.job_hint",
             "sync.api_call_time"} |->
       CASE k = "sync.name" -> replace_none(full_name)
         [] k = "sync.first_name" -> replace_none(first_name)
         [] k = "sync.last_name" -> replace_none(last_name)
         [] k = "sync.job_hint" -> replace_none(Get(results, "job_hint", ""))
         [] k = "sync.api_call_time" -> ""]

\* clean_data_for_db on a flat dict: None values become ''
clean_data_for_db(data) ==
  [k \in DOMAIN data |-> IF data[k] = NoneVal THEN "" ELSE data[k]]

\* ---------------------------------------------------------------- db.py
\* INSERT OR REPLACE on a table whose PRIMARY KEY is phone_number
\* variant: a plain INSERT into a table without the primary key
InsertOrReplace_appends(table, row) == table \cup {row}

InsertOrReplace(table, row) ==
  {r \in table : r.phone_number # row.phone_number} \cup {row}

\* SELECT * FROM t WHERE phone_number = ? ; cursor.fetchone()
FetchOne(table, phone_number) ==
  IF \E r \in table : r.phone_number = phone_number
    THEN CHOOSE r \in table : r.phone_number = phone_number
    ELSE None

\* variant: every write stamps the row, update_time or not
SaveTime_always_now(data, update_time, t) == IsoFormat(t)

\* the api_call_time column written by save_to_db / save_to_sync_db
SaveTime(data, update_time, t) ==
  IF update_time THEN IsoFormat(t) ELSE Get(data, "api_call_time", IsoFormat(t))

\* variant: a column the new data leaves empty keeps the old row's value
save_to_db_keeps_old(table, phone_number, cal_name, data, update_time, t) ==
  LET old == FetchOne(table, phone_number)
      keep(col) == IF Get(data, col, "") = "" /\ old # None
                     THEN old[col] ELSE Get(data, col, "")
  IN InsertOrReplace(table,
       [phone_number |-> phone_number,
        cal_name |-> cal_name,
        user_email |-> keep("user_email"),
        user_first_name |-> keep("user_first_name"),
        user_last_name |-> keep("user_last_name"),
        common_name |-> keep("common_name"),
        me_profile_name |-> keep("me_profile_name"),
        api_call_time |-> SaveTime(data, update_time, t)])

save_to_db(table, phone_number, cal_name, data, update_time, t) ==
  InsertOrReplace(table,
    [phone_number |-> phone_number,
     cal_name |-> cal_name,
     user_email |-> Get(data, "user_email", ""),
     user_first_name |-> Get(data, "user_first_name", ""),
     user_last_name |-> Get(data, "user_last_name", ""),
     common_name |-> Get(data, "common_name", ""),
     me_profile_name |-> Get(data, "me_profile_name", ""),
     api_call_time |-> SaveTime(data, update_time, t)])

get_from_db_with_age(table, phone_number) == FetchOne(table, phone_number)

save_to_sync_db(table, phone_number, cal_name, data, update_time, t) ==
  InsertOrReplace(table,
    [phone_number |-> phone_number,
     cal_name |-> cal_name,
     name |-> Get(data, "name", ""),
     first_name |-> Get(data, "first_name", ""),
     last_name |-> Get(data, "last_name", ""),
     job_hint |-> Get(data, "job_hint", ""),
     api_call_time |-> SaveTime(data, update_time, t)])

get_from_sync_db(table, phone_number) == FetchOne(table, phone_number)

ME_FLAT_TO_DB ==
  ("me.common_name" :> "common_name") @@ ("me.profile_name" :> "me_profile_name")
    @@ ("me.first_name" :> "user_first_name") @@ ("me.last_name" :> "user_last_name")
    @@ ("me.email" :> "user_email")

ME_DB_TO_FLAT ==
  [c \in {ME_FLAT_TO_DB[k] : k \in DOMAIN ME_FLAT_TO_DB} \cup {"api_call_time"} |->
     IF c = "api_call_time" THEN "me.api_call_time"
     ELSE CHOOSE k \in DOMAIN ME_FLAT_TO_DB : ME_FLAT_TO_DB[k] = c]

convert_db_to_response(db_result) ==
  [k \in {"phone_number", "cal_name"} \cup {ME_DB_TO_FLAT[c] : c \in DOMAIN ME_DB_TO_FLAT} |->
     IF k \in {"phone_number", "cal_name"} THEN Get(db_result, k, "")
     ELSE Get(db_result, CHOOSE c \in DOMAIN ME_DB_TO_FLAT : ME_DB_TO_FLAT[c] = k, "")]

me_flat_to_db_data(flattened_result) ==
  [c \in {ME_FLAT_TO_DB[k] : k \in DOMAIN ME_FLAT_TO_DB} |->
     Get(flattened_result, CHOOSE k \in DOMAIN ME_FLAT_TO_DB : ME_FLAT_TO_DB[k] = c, "")]

SYNC_SAVE_FIELDS == {"name", "first_name", "last_name", "job_hint"}

sync_flat_to_db_data(sync_flat) ==
  [field \in SYNC_SAVE_FIELDS |-> Get(sync_flat, "sync." \o field, "")]

\* ---------------------------------------------------------------- lookup.py
\* variant: a record exactly refresh_days old still counts as fresh
check_cache_freshness_inclusive(db_result, refresh_days, cache_only, t) ==
  IF cache_only THEN TRUE
  ELSE IF refresh_days = 0 THEN FALSE
  ELSE LET api_call_time_str == Get(db_result, "api_call_time", "") IN
         IF api_call_time_str = "" THEN FALSE
         ELSE Days(t - FromIsoFormat(api_call_time_str)) <= refresh_days

\* variant: refresh_days = 0 is tested before cache_only
check_cache_freshness_zero_first(db_result, refresh_days, cache_only, t) ==
  IF refresh_days = 0 THEN FALSE
  ELSE IF cache_only THEN TRUE
  ELSE LET api_call_time_str == Get(db_result, "api_call_time", "") IN
         IF api_call_time_str = "" THEN FALSE
         ELSE Days(t - FromIsoFormat(api_call_time_str)) < refresh_days

\* variant: refresh_days = 0 means "never refresh"
check_cache_freshness_zero_never(db_result, refresh_days, cache_only, t) ==
  IF cache_only THEN TRUE
  ELSE IF refresh_days = 0 THEN TRUE
  ELSE LET api_call_time_str == Get(db_result, "api_call_time", "") IN
         IF api_call_time_str = "" THEN FALSE
         ELSE Days(t - FromIsoFormat(api_call_time_str)) < refresh_days

check_cache_freshness(db_result, refresh_days, cache_only, t) ==
  IF cache_only THEN TRUE
  ELSE IF refresh_days = 0 THEN FALSE
  ELSE LET api_call_time_str == Get(db_result, "api_call_time", "") IN
         IF api_call_time_str = "" THEN FALSE
         ELSE Days(t - FromIsoFormat(api_call_time_str)) < refresh_days

\* dict assignment d[k] = v
Put(d, k, v) == [x \in DOMAIN d \cup {k} |-> IF x = k THEN v ELSE d[x]]

\* ---------------------------------------------------------------- state
VARIABLES
  me_data,      \* table me_data: a set of rows
  sync_data,    \* table sync_data: a set of rows
  now,          \* the wall clock, in ticks
  pc,           \* pc[p]: where request thread p stands in its handler
  args,         \* args[p]: the arguments of the lookup p is running
  db_result,    \* db_result[p]: the row p read from the cache, or None
  flattened,    \* flattened[p]: the flattened, stamped provider answer
  res,          \* res[p]: what p's lookup gave back to its caller
  ncalls,       \* ncalls[p]: provider calls made by p's current lookup
  nwrites,      \* nwrites[p]: cache writes made by p's current lookup
  http,         \* http[p]: status of the provider's answer to p's call, 0 before it
  pre,          \* pre[p]: the provider's table when p's lookup started
  committed,    \* rows (claimed name blanked) written by a live refresh
  last,         \* the lookup that completed most recently, or None
  prev,         \* prev[p]: the lookup that completed just before p's began
  nlookups,     \* lookups started so far
  entry,        \* the phone text an entry path received and the cache key it made
  web,          \* the web request being served: its providers, items and results
  sc,           \* the scoring call being evaluated: its inputs and its result
  nick,         \* table nicknames and the start-up that seeds it
  tr,           \* the transliteration call being evaluated: its input and output
  us            \* table users and the update requests in flight

\* the state of the web and scoring layers, which the cache-layer handlers
\* above the web layer never touch
others == <<entry, web, sc, nick, tr, us>>

\* the state of the nickname, transliteration and user-administration layers
aux == <<nick, tr, us>>

vars == <<me_data, sync_data, now, pc, args, db_result, flattened, res,
          ncalls, nwrites, http, pre, committed, last, prev, nlookups,
          entry, web, sc, nick, tr, us>>

PhoneKeys == {"972501234567"}
CalNames == {"", "Dana Levi", "Avi Cohen"}
RefreshNone == 0 - 1   \* refresh_days absent from a REST request (Python None)

PipelinePaths == {"lookup_me", "lookup_sync"}
RestPaths == {"me_api", "sync_api", "server_me_api"}
MePaths == {"lookup_me", "me_api", "server_me_api"}
SyncPaths == {"lookup_sync", "sync_api"}

\* the argument tuples a caller can pass on each path
PipelineArgs ==
  [path : PipelinePaths, phone : PhoneKeys, cal_name : CalNames,
   refresh_days : 0..MaxRefreshDays, cache_only : BOOLEAN, use_cache : {TRUE}]
RestArgs ==
  [path : {"me_api", "server_me_api"}, phone : PhoneKeys, cal_name : CalNames,
   refresh_days : {RefreshNone} \cup 0..MaxRefreshDays, cache_only : BOOLEAN,
   use_cache : BOOLEAN]
  \cup
  [path : {"sync_api"}, phone : PhoneKeys, cal_name : {""},
   refresh_days : {RefreshNone} \cup 0..MaxRefreshDays, cache_only : BOOLEAN,
   use_cache : BOOLEAN]
AllArgs == PipelineArgs \cup RestArgs

NoArgs == [path |-> "none"]

\* a row that predates the api_call_time column's use: the column DEFAULT ''
LegacyMeRow ==
  [phone_number |-> "972501234567", cal_name |-> "Dana Levi", user_email |-> "",
   user_first_name |-> "Dan", user_last_name |-> "Levi", common_name |-> "Dan Levi",
   me_profile_name |-> "", api_call_time |-> ""]
LegacySyncRow ==
  [phone_number |-> "972501234567", cal_name |-> "Dana Levi", name |-> "Dan Levi",
   first_name |-> "Dan", last_name |-> "Levi", job_hint |-> "", api_call_time |-> ""]

RowData(r) == [r EXCEPT !.cal_name = ""]

Table(path) == IF path \in MePaths THEN me_data ELSE sync_data

Init ==
  /\ me_data \in {{}, {LegacyMeRow}}
  /\ sync_data \in {{}, {LegacySyncRow}}
  /\ now = 0
  /\ pc = [p \in Procs |-> "idle"]
  /\ args = [p \in Procs |-> NoArgs]
  /\ db_result = [p \in Procs |-> None]
  /\ flattened = [p \in Procs |-> EmptyDict]
  /\ res = [p \in Procs |-> None]
  /\ ncalls = [p \in Procs |-> 0]
  /\ nwrites = [p \in Procs |-> 0]
  /\ http = [p \in Procs |-> 0]
  /\ pre = [p \in Procs |-> {}]
  /\ committed = {RowData(r) : r \in me_data \cup sync_data}
  /\ last = None
  /\ prev = [p \in Procs |-> None]
  /\ nlookups = 0
  /\ entry = None
  /\ web = None
  /\ sc = None
  /\ nick = None
  /\ tr = None
  /\ us = None

InFlight(p) == pc[p] \notin {"idle", "done"}

\* f with thread p set to v and every thread that has answered set back to blank
Recycle(f, p, v, blank) ==
  [q \in Procs |-> IF q = p THEN v ELSE IF pc[q] = "done" THEN blank ELSE f[q]]

\* a request arrives on thread p with arguments a; threads that have answered
\* go back to the pool, and the pool hands a request to its first free thread.
\* remember: keep the lookup that completed just before
\* this one (prev), when no other lookup is running
Begin(p, a, remember) ==
  /\ ~InFlight(p)
  /\ \A q \in Procs : q < p => InFlight(q)
  /\ nlookups < MaxLookups
  /\ nlookups' = nlookups + 1
  /\ pc' = Recycle(pc, p, "check", "idle")
  /\ args' = Recycle(args, p, a, NoArgs)
  /\ db_result' = Recycle(db_result, p, None, None)
  /\ flattened' = Recycle(flattened, p, EmptyDict, EmptyDict)
  /\ res' = Recycle(res, p, None, None)
  /\ ncalls' = Recycle(ncalls, p, 0, 0)
  /\ nwrites' = Recycle(nwrites, p, 0, 0)
  /\ http' = Recycle(http, p, 0, 0)
  /\ pre' = Recycle(pre, p, Table(a.path), {})
  /\ prev' = [q \in Procs |->
                IF q = p /\ remember /\ (\A r \in Procs : ~InFlight(r)) THEN last ELSE None]
  /\ last' = None
  /\ UNCHANGED <<others, me_data, sync_data, now, committed>>

\* the handler of thread p ends and hands r to its caller
Finish(p, r) ==
  /\ pc' = [pc EXCEPT ![p] = "done"]
  /\ res' = [res EXCEPT ![p] = r]
  /\ last' = [args |-> args[p], res |-> r]

\* variant: every returned triple says the result came from the cache
Returned_always_from_cache(result, api_called, from_cache) ==
  [kind |-> "return", result |-> result, api_called |-> api_called,
   from_cache |-> TRUE]

Returned(result, api_called, from_cache) ==
  [kind |-> "return", result |-> result, api_called |-> api_called,
   from_cache |-> from_cache]
Exception(e) == [kind |-> "raise", error |-> e.msg]
Response(status, body) == [kind |-> "response", status |-> status, body |-> body]

\* the clock advances; once the last request has been answered nothing reads it
Tick ==
  /\ now < MaxTime
  /\ nlookups < MaxLookups \/ \E p \in Procs : InFlight(p)
  /\ now' = now + 1
  /\ UNCHANGED <<others, me_data, sync_data, pc, args, db_result, flattened, res,
                 ncalls, nwrites, http, pre, committed, last, prev, nlookups>>

\* ---------------------------------------------------------------- lookup_me
\* the result lookup_me builds from a cached row
MeCachedResult(row, phone, cal_name) ==
  Put(Put(convert_db_to_response(row), "phone_number", phone),
      "cal_name", IF cal_name # "" THEN cal_name ELSE Get(row, "cal_name", ""))

\* variant: the empty result without the sentinel
MeNotInCache_unmarked(phone, cal_name) ==
  Put(Put(clean_data_for_db(me_flatten_user_data(EmptyDict)),
          "phone_number", phone), "cal_name", cal_name)

\* the result of a cache-only lookup that found nothing
MeNotInCache(phone, cal_name) ==
  Put(Put(Put(clean_data_for_db(me_flatten_user_data(EmptyDict)),
              "phone_number", phone), "cal_name", cal_name),
      "me.common_name", NOT_IN_CACHE)

\* the flattened answer of a live call, stamped with the call time t
MeStamped(api_result, phone, cal_name, t) ==
  LET flat == IF api_result = None
                THEN clean_data_for_db(me_flatten_user_data(EmptyDict))
                ELSE clean_data_for_db(me_flatten_user_data(api_result))
  IN Put(Put(Put(flat, "phone_number", phone), "cal_name", cal_name),
         "me.api_call_time", IsoFormat(t))

\* lookup_me, lines 51-70: read the cache, decide, return or go on to the call
lookup_me_check(p) ==
  /\ pc[p] = "check" /\ args[p].path = "lookup_me"
  /\ LET a == args[p]
         row == get_from_db_with_age(me_data, a.phone)
     IN IF row # None /\ check_cache_freshness(row, a.refresh_days, a.cache_only, now)
          THEN IF Get(row, "cal_name", "") # a.cal_name /\ a.cal_name # ""
                 THEN /\ db_result' = [db_result EXCEPT ![p] = Put(row, "cal_name", a.cal_name)]
                      /\ pc' = [pc EXCEPT ![p] = "name_write"]
                      /\ UNCHANGED <<res, last>>
                 ELSE /\ db_result' = [db_result EXCEPT ![p] = row]
                      /\ Finish(p, Returned(MeCachedResult(row, a.phone, a.cal_name), FALSE, TRUE))
          ELSE IF a.cache_only
                 THEN /\ db_result' = [db_result EXCEPT ![p] = row]
                      /\ Finish(p, Returned(MeNotInCache(a.phone, a.cal_name), FALSE, FALSE))
                 ELSE /\ db_result' = [db_result EXCEPT ![p] = row]
                      /\ pc' = [pc EXCEPT ![p] = "call"]
                      /\ UNCHANGED <<res, last>>
  /\ UNCHANGED <<others, me_data, sync_data, now, args, flattened, ncalls, nwrites, http, pre,
                 committed, prev, nlookups>>

\* lookup_me, lines 55-62: write the caller's claimed name back, return the row
lookup_me_name_write(p) ==
  /\ pc[p] = "name_write" /\ args[p].path = "lookup_me"
  /\ LET a == args[p] IN
       /\ me_data' = save_to_db(me_data, a.phone, a.cal_name, db_result[p], FALSE, now)
       /\ Finish(p, Returned(MeCachedResult(db_result[p], a.phone, a.cal_name), FALSE, TRUE))
  /\ nwrites' = [nwrites EXCEPT ![p] = @ + 1]
  /\ UNCHANGED <<others, sync_data, now, args, db_result, flattened, ncalls, http, pre,
                 committed, prev, nlookups>>

\* lookup_me, lines 72-84: the provider call, flatten, stamp
lookup_me_call(p) ==
  /\ pc[p] = "call" /\ args[p].path = "lookup_me"
  /\ ncalls' = [ncalls EXCEPT ![p] = @ + 1]
  /\ \E response \in MeResponses :
       LET api_result == me_call_api(response) IN
         /\ http' = [http EXCEPT ![p] = response.status_code]
         /\ IF IsRaised(api_result)
           THEN /\ Finish(p, Exception(api_result))
                /\ UNCHANGED flattened
           ELSE /\ flattened' = [flattened EXCEPT ![p] =
                                   MeStamped(api_result, args[p].phone, args[p].cal_name, now)]
                /\ pc' = [pc EXCEPT ![p] = "save"]
                /\ UNCHANGED <<res, last>>
  /\ UNCHANGED <<others, me_data, sync_data, now, args, db_result, nwrites, pre,
                 committed, prev, nlookups>>

\* lookup_me, lines 86-89: persist the answer and return it
lookup_me_save(p) ==
  /\ pc[p] = "save" /\ args[p].path = "lookup_me"
  /\ LET a == args[p] IN
       /\ me_data' = save_to_db(me_data, a.phone, a.cal_name,
                                me_flat_to_db_data(flattened[p]), TRUE, now)
       /\ committed' = committed \cup {RowData(FetchOne(me_data', a.phone))}
       /\ Finish(p, Returned(flattened[p], TRUE, FALSE))
  /\ nwrites' = [nwrites EXCEPT ![p] = @ + 1]
  /\ UNCHANGED <<others, sync_data, now, args, db_result, flattened, ncalls, http, pre,
                 prev, nlookups>>

\* ---------------------------------------------------------------- lookup_sync
SyncCachedResult(row) ==
  [k \in {"sync.first_name", "sync.last_name", "sync.api_call_time"} |->
     CASE k = "sync.first_name" -> Get(row, "first_name", "")
       [] k = "sync.last_name" -> Get(row, "last_name", "")
       [] k = "sync.api_call_time" -> Get(row, "api_call_time", "")]

SyncNotInCache ==
  [k \in {"sync.first_name", "sync.last_name", "sync.api_call_time"} |->
     IF k = "sync.first_name" THEN NOT_IN_CACHE ELSE ""]

\* `if api_result:` is false for None and for an empty dict
SyncFlat(api_result) ==
  IF api_result # None /\ DOMAIN api_result # {}
    THEN sync_flatten_user_data(api_result)
    ELSE sync_flatten_user_data(EmptyDict)

SyncLiveResult(sync_flat, t) ==
  [k \in {"sync.first_name", "sync.last_name", "sync.api_call_time"} |->
     CASE k = "sync.first_name" -> Get(sync_flat, "sync.first_name", "")
       [] k = "sync.last_name" -> Get(sync_flat, "sync.last_name", "")
       [] k = "sync.api_call_time" -> IsoFormat(t)]

\* lookup_sync, lines 100-118
lookup_sync_check(p) ==
  /\ pc[p] = "check" /\ args[p].path = "lookup_sync"
  /\ LET a == args[p]
         row == get_from_sync_db(sync_data, a.phone)
     IN /\ db_result' = [db_result EXCEPT ![p] = row]
        /\ IF row # None /\ check_cache_freshness(row, a.refresh_days, a.cache_only, now)
             THEN Finish(p, Returned(SyncCachedResult(row), FALSE, TRUE))
             ELSE IF a.cache_only
                    THEN Finish(p, Returned(SyncNotInCache, FALSE, FALSE))
                    ELSE /\ pc' = [pc EXCEPT ![p] = "call"]
                         /\ UNCHANGED <<res, last>>
  /\ UNCHANGED <<others, me_data, sync_data, now, args, flattened, ncalls, nwrites, http, pre,
                 committed, prev, nlookups>>

\* lookup_sync, lines 120-133
lookup_sync_call(p) ==
  /\ pc[p] = "call" /\ args[p].path = "lookup_sync"
  /\ ncalls' = [ncalls EXCEPT ![p] = @ + 1]
  /\ \E response \in SyncResponses :
       LET api_result == sync_call_api(response) IN
         /\ http' = [http EXCEPT ![p] = response.status_code]
         /\ IF IsRaised(api_result)
           THEN /\ Finish(p, Exception(api_result))
                /\ UNCHANGED flattened
           ELSE /\ flattened' = [flattened EXCEPT ![p] =
                                   [sync_flat |-> SyncFlat(api_result),
                                    result |-> SyncLiveResult(SyncFlat(api_result), now)]]
                /\ pc' = [pc EXCEPT ![p] = "save"]
                /\ UNCHANGED <<res, last>>
  /\ UNCHANGED <<others, me_data, sync_data, now, args, db_result, nwrites, pre,
                 committed, prev, nlookups>>

\* lookup_sync, lines 135-138
lookup_sync_save(p) ==
  /\ pc[p] = "save" /\ args[p].path = "lookup_sync"
  /\ LET a == args[p] IN
       /\ sync_data' = save_to_sync_db(sync_data, a.phone, a.cal_name,
                                       sync_flat_to_db_data(flattened[p].sync_flat), TRUE, now)
       /\ committed' = committed \cup {RowData(FetchOne(sync_data', a.phone))}
       /\ Finish(p, Returned(flattened[p].result, TRUE, FALSE))
  /\ nwrites' = [nwrites EXCEPT ![p] = @ + 1]
  /\ UNCHANGED <<others, me_data, now, args, db_result, flattened, ncalls, http, pre,
                 prev, nlookups>>

\* ---------------------------------------------------------------- /me
\* variant: the claimed name is written back whenever the caller gives one
me_api_name_differs_always(path, row, cal_name) == cal_name # ""

\* "Update cal_name if different": routes/api.py tests the caller's name for
\* emptiness first, server.py does not
me_api_name_differs(path, row, cal_name) ==
  IF path = "me_api"
    THEN cal_name # "" /\ Get(row, "cal_name", "") # cal_name
    ELSE Get(row, "cal_name", "") # cal_name

\* routes/api.py me_api, lines 60-73
me_api_needs_refresh(row, refresh_days, t) ==
  IF refresh_days = RefreshNone THEN FALSE
  ELSE IF refresh_days = 0 THEN TRUE
  ELSE LET api_call_time_str == Get(row, "api_call_time", "") IN
         IF api_call_time_str # ""
           THEN Days(t - FromIsoFormat(api_call_time_str)) >= refresh_days
           ELSE TRUE

\* server.py me_api, line 411: datetime.fromisoformat('') raises ValueError
server_me_api_raises(row, refresh_days) ==
  /\ refresh_days # RefreshNone
  /\ refresh_days # 0
  /\ Get(row, "api_call_time", "") = ""

\* server.py me_api, lines 406-415
server_me_api_needs_refresh(row, refresh_days, t) ==
  IF refresh_days = RefreshNone THEN FALSE
  ELSE IF refresh_days = 0 THEN TRUE
  ELSE Days(t - FromIsoFormat(Get(row, "api_call_time", ""))) >= refresh_days

MeApiCached(row) == Put(convert_db_to_response(row), "from_cache", TRUE)

\* the freshness decision and what follows it, up to the provider call
me_api_decide(p, row) ==
  LET a == args[p] IN
    IF row # None /\ a.path = "server_me_api" /\ server_me_api_raises(row, a.refresh_days)
      THEN Finish(p, Response(HTTP_SERVER_ERROR, [error |-> "Invalid isoformat string"]))
    ELSE IF row # None /\ ~(IF a.path = "me_api"
                              THEN me_api_needs_refresh(row, a.refresh_days, now)
                              ELSE server_me_api_needs_refresh(row, a.refresh_days, now))
      THEN Finish(p, Response(HTTP_OK, MeApiCached(row)))
    ELSE IF a.cache_only
      THEN IF a.use_cache /\ row # None
             THEN Finish(p, Response(HTTP_OK, MeApiCached(row)))
             ELSE Finish(p, Response(HTTP_OK,
                    Put(MeNotInCache(a.phone, a.cal_name), "from_cache", FALSE)))
    ELSE /\ pc' = [pc EXCEPT ![p] = "call"]
         /\ UNCHANGED <<res, last>>

\* me_api: read the cache when use_cache is set
me_api_check(p) ==
  /\ pc[p] = "check" /\ args[p].path \in {"me_api", "server_me_api"}
  /\ LET a == args[p]
         row == IF a.use_cache THEN get_from_db_with_age(me_data, a.phone) ELSE None
     IN IF row # None /\ me_api_name_differs(a.path, row, a.cal_name)
          THEN /\ db_result' = [db_result EXCEPT ![p] = Put(row, "cal_name", a.cal_name)]
               /\ pc' = [pc EXCEPT ![p] = "name_write"]
               /\ UNCHANGED <<res, last>>
          ELSE /\ db_result' = [db_result EXCEPT ![p] = row]
               /\ me_api_decide(p, row)
  /\ UNCHANGED <<others, me_data, sync_data, now, args, flattened, ncalls, nwrites, http, pre,
                 committed, prev, nlookups>>

\* me_api: the claimed-name write, which comes before the freshness decision
me_api_name_write(p) ==
  /\ pc[p] = "name_write" /\ args[p].path \in {"me_api", "server_me_api"}
  /\ me_data' = save_to_db(me_data, args[p].phone, args[p].cal_name, db_result[p], FALSE, now)
  /\ nwrites' = [nwrites EXCEPT ![p] = @ + 1]
  /\ me_api_decide(p, db_result[p])
  /\ UNCHANGED <<others, sync_data, now, args, db_result, flattened, ncalls, http, pre,
                 committed, prev, nlookups>>

\* me_api: the provider call; any exception becomes a 500 response
me_api_call(p) ==
  /\ pc[p] = "call" /\ args[p].path \in {"me_api", "server_me_api"}
  /\ ncalls' = [ncalls EXCEPT ![p] = @ + 1]
  /\ \E response \in MeResponses :
       LET api_result == me_call_api(response) IN
         /\ http' = [http EXCEPT ![p] = response.status_code]
         /\ IF IsRaised(api_result)
           THEN /\ Finish(p, Response(HTTP_SERVER_ERROR, [error |-> api_result.msg]))
                /\ UNCHANGED flattened
           ELSE /\ flattened' = [flattened EXCEPT ![p] =
                                   MeStamped(api_result, args[p].phone, args[p].cal_name, now)]
                /\ pc' = [pc EXCEPT ![p] = "save"]
                /\ UNCHANGED <<res, last>>
  /\ UNCHANGED <<others, me_data, sync_data, now, args, db_result, nwrites, pre,
                 committed, prev, nlookups>>

me_api_save(p) ==
  /\ pc[p] = "save" /\ args[p].path \in {"me_api", "server_me_api"}
  /\ LET a == args[p] IN
       /\ me_data' = save_to_db(me_data, a.phone, a.cal_name,
                                me_flat_to_db_data(flattened[p]), TRUE, now)
       /\ committed' = committed \cup {RowData(FetchOne(me_data', a.phone))}
       /\ Finish(p, Response(HTTP_OK, Put(flattened[p], "from_cache", FALSE)))
  /\ nwrites' = [nwrites EXCEPT ![p] = @ + 1]
  /\ UNCHANGED <<others, sync_data, now, args, db_result, flattened, ncalls, http, pre,
                 prev, nlookups>>

\* ---------------------------------------------------------------- /sync
\* routes/api.py sync_api, lines 151-162: no branch for an empty timestamp
sync_api_needs_refresh(row, refresh_days, t) ==
  IF refresh_days = RefreshNone THEN FALSE
  ELSE IF refresh_days = 0 THEN TRUE
  ELSE LET api_call_time_str == Get(row, "api_call_time", "") IN
         IF api_call_time_str # ""
           THEN Days(t - FromIsoFormat(api_call_time_str)) >= refresh_days
           ELSE FALSE

SyncApiCached(row, phone) ==
  Put(Put(SyncCachedResult(row), "phone_number", phone), "from_cache", TRUE)

sync_api_check(p) ==
  /\ pc[p] = "check" /\ args[p].path = "sync_api"
  /\ LET a == args[p]
         row == IF a.use_cache THEN get_from_sync_db(sync_data, a.phone) ELSE None
     IN /\ db_result' = [db_result EXCEPT ![p] = row]
        /\ IF row # None /\ ~sync_api_needs_refresh(row, a.refresh_days, now)
             THEN Finish(p, Response(HTTP_OK, SyncApiCached(row, a.phone)))
           ELSE IF a.cache_only
             THEN IF a.use_cache /\ row # None
                    THEN Finish(p, Response(HTTP_OK, SyncApiCached(row, a.phone)))
                    ELSE Finish(p, Response(HTTP_OK,
                           Put(Put(SyncNotInCache, "phone_number", a.phone),
                               "from_cache", FALSE)))
           ELSE /\ pc' = [pc EXCEPT ![p] = "call"]
                /\ UNCHANGED <<res, last>>
  /\ UNCHANGED <<others, me_data, sync_data, now, args, flattened, ncalls, nwrites, http, pre,
                 committed, prev, nlookups>>

sync_api_call(p) ==
  /\ pc[p] = "call" /\ args[p].path = "sync_api"
  /\ ncalls' = [ncalls EXCEPT ![p] = @ + 1]
  /\ \E response \in SyncResponses :
       LET api_result == sync_call_api(response) IN
         /\ http' = [http EXCEPT ![p] = response.status_code]
         /\ IF IsRaised(api_result)
           THEN /\ Finish(p, Response(HTTP_SERVER_ERROR, [error |-> api_result.msg]))
                /\ UNCHANGED flattened
           ELSE /\ flattened' = [flattened EXCEPT ![p] =
                     Put(Put(IF api_result = None
                               THEN sync_flatten_user_data(EmptyDict)
                               ELSE sync_flatten_user_data(api_result),
                             "phone_number", args[p].phone),
                         "sync.api_call_time", IsoFormat(now))]
                /\ pc' = [pc EXCEPT ![p] = "save"]
                /\ UNCHANGED <<res, last>>
  /\ UNCHANGED <<others, me_data, sync_data, now, args, db_result, nwrites, pre,
                 committed, prev, nlookups>>

sync_api_save(p) ==
  /\ pc[p] = "save" /\ args[p].path = "sync_api"
  /\ sync_data' = save_to_sync_db(sync_data, args[p].phone, "",
                                  sync_flat_to_db_data(flattened[p]), TRUE, now)
  /\ committed' = committed \cup {RowData(FetchOne(sync_data', args[p].phone))}
  /\ Finish(p, Response(HTTP_OK, Put(flattened[p], "from_cache", FALSE)))
  /\ nwrites' = [nwrites EXCEPT ![p] = @ + 1]
  /\ UNCHANGED <<others, me_data, now, args, db_result, flattened, ncalls, http, pre,
                 prev, nlookups>>

\* ---------------------------------------------------------------- specifications
Step(p) ==
  \/ lookup_me_check(p) \/ lookup_me_name_write(p) \/ lookup_me_call(p) \/ lookup_me_save(p)
  \/ lookup_sync_check(p) \/ lookup_sync_call(p) \/ lookup_sync_save(p)
  \/ me_api_check(p) \/ me_api_name_write(p) \/ me_api_call(p) \/ me_api_save(p)
  \/ sync_api_check(p) \/ sync_api_call(p) \/ sync_api_save(p)

\* requests served one after the other, on any path with any arguments
BeginAlone(p) ==
  /\ \A q \in Procs : ~InFlight(q)
  /\ \E a \in AllArgs : Begin(p, a, FALSE)

Next ==
  \/ \E p \in Procs : BeginAlone(p)
  \/ \E p \in Procs : Step(p)
  \/ Tick

Spec == Init /\ [][Next]_vars

\* two requests per key in a row on the pipeline, cache enabled and a positive
\* freshness window: the second one finds what the first one left
TwiceArgs == {a \in PipelineArgs : a.refresh_days > 0 /\ ~a.cache_only}

BeginAfter(p) ==
  /\ \A q \in Procs : ~InFlight(q)
  /\ \E a \in TwiceArgs : Begin(p, a, TRUE)

StepPipeline(p) ==
  \/ lookup_me_check(p) \/ lookup_me_name_write(p) \/ lookup_me_call(p) \/ lookup_me_save(p)
  \/ lookup_sync_check(p) \/ lookup_sync_call(p) \/ lookup_sync_save(p)

NextTwice ==
  \/ \E p \in Procs : BeginAfter(p)
  \/ \E p \in Procs : StepPipeline(p)
  \/ Tick

SpecTwice == Init /\ [][NextTwice]_vars

\* requests for the same key served by the worker's threads at the same time
RaceArgs ==
  {a \in PipelineArgs : a.cal_name # "" /\ (a.cache_only => a.refresh_days = MaxRefreshDays)}

\* a request that overlaps a running one is for the same provider's record
BeginConcurrent(p) ==
  \E a \in RaceArgs :
    /\ \A q \in Procs : InFlight(q) => (args[q].path \in MePaths <=> a.path \in MePaths)
    /\ Begin(p, a, FALSE)

NextRace ==
  \/ \E p \in Procs : BeginConcurrent(p)
  \/ \E p \in Procs : StepPipeline(p)
  \/ Tick

SpecRace == Init /\ [][NextRace]_vars

\* ---------------------------------------------------------------- properties
Done(p) == pc[p] = "done"

\* the record of p's key when p's lookup started, and now
PreRow(p) == FetchOne(pre[p], args[p].phone)
Row(p) == FetchOne(Table(args[p].path), args[p].phone)

\* what the caller of a finished lookup observes
HasResult(r) == r.kind = "return" \/ (r.kind = "response" /\ r.status = HTTP_OK)
ResultOf(r) == IF r.kind = "return" THEN r.result ELSE r.body
FromCache(r) == IF r.kind = "return" THEN r.from_cache ELSE r.body["from_cache"]
Surfaced(r) == r.kind = "raise" \/ (r.kind = "response" /\ r.status = HTTP_SERVER_ERROR)

FetchTimeKey(path) == IF path \in MePaths THEN "me.api_call_time" ELSE "sync.api_call_time"
PrimaryKey(path) == IF path \in MePaths THEN "me.common_name" ELSE "sync.first_name"
ProviderKeys(d) == DOMAIN d \ {"phone_number", "cal_name", "from_cache"}

\* a record is fresh for a request as the lookup state machine defines it
FreshFor(row, a, t) ==
  \/ a.cache_only
  \/ /\ a.refresh_days > 0
     /\ row.api_call_time # ""
     /\ Days(t - FromIsoFormat(row.api_call_time)) < a.refresh_days

C2_SecondLookupIdentical ==
  \A p \in Procs :
    ( /\ Done(p) /\ prev[p] # None
      /\ prev[p].args = args[p]
      /\ prev[p].res.kind = "return" /\ prev[p].res.api_called
      /\ Days(now - FromIsoFormat(prev[p].res.result[FetchTimeKey(args[p].path)])) = 0 )
    => /\ res[p].kind = "return"
       /\ res[p].from_cache /\ ~res[p].api_called
       /\ res[p].result = prev[p].res.result

\* C3: a pipeline lookup that finds a fresh record and carries a non-empty
\* claimed name different from the stored one leaves the stored claimed name
\* equal to the caller's, the timestamp and the data fields unchanged, and
\* returns from_cache=true, called_api=false
C3_ClaimedNameUpdated ==
  \A p \in Procs :
    ( /\ Done(p) /\ args[p].path \in PipelinePaths
      /\ PreRow(p) # None /\ FreshFor(PreRow(p), args[p], now)
      /\ args[p].cal_name # "" /\ args[p].cal_name # PreRow(p).cal_name )
    => /\ Row(p) # None
       /\ Row(p).cal_name = args[p].cal_name
       /\ RowData(Row(p)) = RowData(PreRow(p))
       /\ res[p].kind = "return" /\ res[p].from_cache /\ ~res[p].api_called

\* C4: on every path, with the cache read, cache-only off and refresh_days > 0,
\* a record whose timestamp is empty is stale: the lookup makes a live call and
\* does not answer from the cache
C4_EmptyTimestampStale ==
  \A p \in Procs :
    ( /\ Done(p) /\ args[p].use_cache /\ ~args[p].cache_only
      /\ args[p].refresh_days > 0
      /\ PreRow(p) # None /\ PreRow(p).api_call_time = "" )
    => /\ ncalls[p] = 1
       /\ HasResult(res[p]) => ~FromCache(res[p])

\* the step in which p's lookup decides between the cached record and a live
\* call: the cache check, or for /me the name update that precedes the decision
Decides(p) ==
  \/ /\ pc[p] = "check" /\ pc'[p] # "check"
     /\ ~(args[p].path \in RestPaths /\ pc'[p] = "name_write")
  \/ /\ pc[p] = "name_write" /\ pc'[p] # "name_write"
     /\ args[p].path \in RestPaths

\* C5: for refresh_days = N > 0 with cache-only off, the lookup of a record that
\* carries a timestamp goes on to a live call exactly when the whole days
\* elapsed since the timestamp are >= N; otherwise it serves the record
C5_StaleExactlyAfterNDays ==
  [][\A p \in Procs :
       LET a == args[p]
           row == IF pc[p] = "check" THEN Row(p) ELSE db_result[p]
       IN ( /\ Decides(p)
            /\ a.use_cache /\ ~a.cache_only /\ a.refresh_days > 0
            /\ row # None /\ row.api_call_time # "" )
          => ( pc'[p] = "call"
               <=> Days(now - FromIsoFormat(row.api_call_time)) >= a.refresh_days )]_vars

\* a record fetched exactly N days ago sends the lookup to the provider
C5_Witness ==
  \E p \in Procs :
    /\ pc[p] = "call" /\ ~args[p].cache_only /\ args[p].refresh_days > 0
    /\ db_result[p] # None /\ db_result[p].api_call_time # ""
    /\ now - FromIsoFormat(db_result[p].api_call_time) = args[p].refresh_days * DayLen

\* the paths C6 is stated for: the pipeline and the REST wrappers of routes/api.py
C6Paths == PipelinePaths \cup {"me_api", "sync_api"}

C7_ZeroForcesLiveCall ==
  \A p \in Procs :
    (Done(p) /\ ~args[p].cache_only /\ args[p].refresh_days = 0)
    => /\ ncalls[p] = 1
       /\ HasResult(res[p]) => ~FromCache(res[p])
       /\ res[p].kind = "return" => res[p].api_called

\* a record stamped in this very instant is refreshed all the same
C7_Witness ==
  \E p \in Procs :
    /\ Done(p) /\ ~args[p].cache_only /\ args[p].refresh_days = 0
    /\ PreRow(p) # None /\ PreRow(p).api_call_time = IsoFormat(now)
    /\ ncalls[p] = 1 /\ res[p].kind = "return" /\ res[p].api_called

\* C8: a cache-only lookup of a key with no record returns the NOT IN CACHE
\* sentinel in the primary name field, every other provider field empty,
\* called_api=false, from_cache=false; it calls no API, writes nothing and the
\* key still has no record
C8_NotInCache ==
  \A p \in Procs :
    (Done(p) /\ args[p].cache_only /\ PreRow(p) = None)
    => /\ HasResult(res[p])
       /\ ResultOf(res[p])[PrimaryKey(args[p].path)] = NOT_IN_CACHE
       /\ \A k \in ProviderKeys(ResultOf(res[p])) \ {PrimaryKey(args[p].path)} :
            ResultOf(res[p])[k] = ""
       /\ ~FromCache(res[p])
       /\ res[p].kind = "return" => ~res[p].api_called
       /\ ncalls[p] = 0 /\ nwrites[p] = 0
       /\ Row(p) = None

C8_Witness ==
  \E p \in Procs :
    /\ Done(p) /\ args[p].cache_only /\ PreRow(p) = None
    /\ args[p].path = "lookup_me"
    /\ res[p].kind = "return" /\ res[p].result["me.common_name"] = NOT_IN_CACHE

\* C9: when the provider answers 404 the lookup returns a result with every
\* name and data field empty, called_api=true, from_cache=false, and the key's
\* record is replaced by that empty result, stamped when it was saved
C9_NotFoundIsEmptyResult ==
  \A p \in Procs :
    (Done(p) /\ http[p] = HTTP_NOT_FOUND)
    => /\ HasResult(res[p])
       /\ \A k \in ProviderKeys(ResultOf(res[p])) \ {FetchTimeKey(args[p].path)} :
            ResultOf(res[p])[k] = ""
       /\ ~FromCache(res[p])
       /\ res[p].kind = "return" => res[p].api_called
       /\ Row(p) # None
       /\ Row(p).cal_name = args[p].cal_name
       /\ \A f \in DOMAIN Row(p) \ {"phone_number", "cal_name", "api_call_time"} :
            Row(p)[f] = ""
       /\ Row(p).api_call_time # ""
       /\ FromIsoFormat(Row(p).api_call_time) <= now
       /\ FromIsoFormat(Row(p).api_call_time)
            >= FromIsoFormat(ResultOf(res[p])[FetchTimeKey(args[p].path)])

\* a record that held a name is replaced by the empty one
C9_Witness ==
  \E p \in Procs :
    /\ Done(p) /\ http[p] = HTTP_NOT_FOUND /\ args[p].path = "lookup_me"
    /\ PreRow(p) # None /\ PreRow(p).common_name # ""
    /\ Row(p) # None /\ Row(p).common_name = ""

\* C10: when the provider call fails (a status other than 200 and 404) the
\* lookup surfaces the error and the provider's cache is exactly as it was when
\* the lookup started
C10_ErrorLeavesCacheUntouched ==
  \A p \in Procs :
    (Done(p) /\ http[p] \notin {0, HTTP_OK, HTTP_NOT_FOUND})
    => /\ Surfaced(res[p])
       /\ Table(args[p].path) = pre[p]

\* the flattened response p's live call produced
NewFlat(p) ==
  IF args[p].path = "lookup_sync" THEN flattened[p].sync_flat ELSE flattened[p]

\* each data column of a provider's table with the flattened field it stores
ColumnOf(path) ==
  IF path \in MePaths
    THEN {<<"common_name", "me.common_name">>, <<"me_profile_name", "me.profile_name">>,
          <<"user_first_name", "me.first_name">>, <<"user_last_name", "me.last_name">>,
          <<"user_email", "me.email">>}
    ELSE {<<"name", "sync.name">>, <<"first_name", "sync.first_name">>,
          <<"last_name", "sync.last_name">>, <<"job_hint", "sync.job_hint">>}

\* C11: after a lookup whose live call succeeded (HTTP 200) the key's record
\* holds exactly the newly flattened response, the caller's claimed name and a
\* new fetch time; a field the response lacks is stored empty, whatever the
\* previous record held
C11_LiveCallReplacesRecord ==
  \A p \in Procs :
    (Done(p) /\ http[p] = HTTP_OK)
    => /\ Row(p) # None
       /\ \A c \in ColumnOf(args[p].path) : Row(p)[c[1]] = NewFlat(p)[c[2]]
       /\ DOMAIN Row(p) = {c[1] : c \in ColumnOf(args[p].path)}
                            \cup {"phone_number", "cal_name", "api_call_time"}
       /\ Row(p).cal_name = args[p].cal_name
       /\ Row(p).api_call_time # ""
       /\ FromIsoFormat(Row(p).api_call_time) <= now
       /\ FromIsoFormat(Row(p).api_call_time)
            >= FromIsoFormat(ResultOf(res[p])[FetchTimeKey(args[p].path)])

\* the old record had a first name, the new response has none: it is stored empty
C11_Witness ==
  \E p \in Procs :
    /\ Done(p) /\ http[p] = HTTP_OK /\ args[p].path = "lookup_me"
    /\ PreRow(p) # None /\ PreRow(p).user_first_name # ""
    /\ Row(p) # None /\ Row(p).user_first_name = "" /\ Row(p).common_name # ""

\* C12: whatever lookups ran (cache hits, claimed-name updates, live refreshes,
\* not-found results, errors), each provider's table holds at most one record
\* per phone key: a write for an existing key replaces its row
C12_OneRecordPerKey ==
  /\ \A r1, r2 \in me_data : r1.phone_number = r2.phone_number => r1 = r2
  /\ \A r1, r2 \in sync_data : r1.phone_number = r2.phone_number => r1 = r2

\* a lookup wrote over the record that was there
C12_Witness ==
  \E p \in Procs :
    /\ Done(p) /\ nwrites[p] = 1
    /\ PreRow(p) # None /\ Row(p) # None /\ Row(p) # PreRow(p)
    /\ Cardinality(Table(args[p].path)) = 1

\* the same request made again: every request after the first repeats the
\* arguments of the one that was answered just before it
BeginRepeat(p) ==
  /\ \A q \in Procs : ~InFlight(q)
  /\ \E a \in AllArgs :
       /\ last # None => a = last.args
       /\ Begin(p, a, TRUE)

NextRepeat ==
  \/ \E p \in Procs : BeginRepeat(p)
  \/ \E p \in Procs : Step(p)
  \/ Tick

SpecRepeat == Init /\ [][NextRepeat]_vars

\* C13: a lookup that repeats the arguments of the lookup before it, while the
\* record is fresh, calls no API and writes nothing: the provider's table is
\* the same before and after it
C13_RepeatIsPureRead ==
  \A p \in Procs :
    ( /\ Done(p) /\ prev[p] # None /\ prev[p].args = args[p]
      /\ args[p].use_cache
      /\ PreRow(p) # None
      /\ FreshFor(PreRow(p), args[p], now) \/ args[p].refresh_days = RefreshNone )
    => /\ ncalls[p] = 0 /\ nwrites[p] = 0
       /\ Table(args[p].path) = pre[p]

\* the first lookup wrote the caller's claimed name, the repeated one writes nothing
C13_Witness ==
  \E p \in Procs :
    /\ Done(p) /\ prev[p] # None /\ prev[p].args = args[p]
    /\ args[p].path \in {"lookup_me", "me_api"} /\ args[p].cal_name = "Avi Cohen"
    /\ PreRow(p) # None /\ PreRow(p).cal_name = "Avi Cohen"
    /\ PreRow(p).api_call_time = ""
    /\ nwrites[p] = 0 /\ HasResult(res[p]) /\ FromCache(res[p])

\* ---------------------------------------------------------------------------
\* Phone texts and the cache key each entry path makes of them
\* ---------------------------------------------------------------------------

\* a text is a sequence of one-character strings
Digits == {"0", "1", "2", "3", "4", "5", "6", "7", "8", "9"}
Whitespace == {" "}

\* str.isdigit(): non-empty and all digits
isdigit(s) == Len(s) > 0 /\ \A i \in 1..Len(s) : s[i] \in Digits

\* str.startswith(prefix)
startswith(s, prefix) ==
  Len(s) >= Len(prefix) /\ SubSeq(s, 1, Len(prefix)) = prefix

\* str.strip(): leading and trailing whitespace removed
RECURSIVE lstrip(_)
lstrip(s) == IF s # <<>> /\ Head(s) \in Whitespace THEN lstrip(Tail(s)) ELSE s
RECURSIVE rstrip(_)
rstrip(s) ==
  IF s # <<>> /\ s[Len(s)] \in Whitespace THEN rstrip(SubSeq(s, 1, Len(s) - 1)) ELSE s
strip(s) == rstrip(lstrip(s))

\* str.replace(old, ''): every occurrence of the character old removed
RECURSIVE replace(_, _)
replace(s, old) ==
  IF s = <<>> THEN <<>>
  ELSE IF Head(s) = old THEN replace(Tail(s), old)
  ELSE <<Head(s)>> \o replace(Tail(s), old)

DialCode == <<"9", "7", "2">>

\* phone.validate_phone_numbers, for one number
validate_phone_numbers(phone) ==
  ~(~isdigit(phone) \/ ~startswith(phone, DialCode) \/ Len(phone) # 12)

\* phone.convert_to_international, for one number: it strips the ends and
\* rewrites the two local shapes it knows, and returns any other text as it is
convert_to_international(phone) ==
  LET phone_str == strip(phone) IN
    IF Len(phone_str) = 10 /\ startswith(phone_str, <<"0">>) THEN DialCode \o Tail(phone_str)
    ELSE IF Len(phone_str) = 9 /\ startswith(phone_str, <<"5">>) THEN DialCode \o phone_str
    ELSE phone_str

\* web_process's is_valid_phone: it judges a copy without '-', ' ' and '+'
is_valid_phone(phone) ==
  IF phone = <<>> THEN FALSE
  ELSE LET cleaned == replace(replace(replace(strip(phone), "-"), " "), "+") IN
    IF startswith(cleaned, <<"0", "5">>) \/ startswith(cleaned, <<"0", "7">>)
      THEN Len(cleaned) >= 9 /\ Len(cleaned) <= 10 /\ isdigit(cleaned)
    ELSE IF startswith(cleaned, <<"5">>) \/ startswith(cleaned, <<"7">>)
      THEN Len(cleaned) = 9 /\ isdigit(cleaned)
    ELSE IF startswith(cleaned, DialCode)
      THEN Len(cleaned) >= 11 /\ Len(cleaned) <= 12 /\ isdigit(cleaned)
    ELSE FALSE

\* the phone texts a caller may send: one mobile number in the shapes the
\* claim names, a landline-style number, and texts that are no number
Subscriber == <<"5", "0", "1", "2", "3", "4", "5", "6", "7">>
PhoneBodies ==
  { <<"0">> \o Subscriber,
    Subscriber,
    DialCode \o Subscriber,
    <<"0", "5", "0", "-">> \o SubSeq(Subscriber, 3, 9),
    <<"0", "5", "0", " ">> \o SubSeq(Subscriber, 3, 9),
    DialCode \o <<"-">> \o Subscriber,
    <<"0", "7", "7", "1", "2", "3", "4", "5", "6">>,
    DialCode \o <<"2", "1", "2", "3", "4", "5", "6", "7">>,
    <<"a", "b", "c">>,
    <<>> }
PhoneLeads == {<<>>, <<" ">>, <<"+">>}
PhoneTrails == {<<>>, <<" ">>}
RawPhones == {l \o b \o t : l \in PhoneLeads, b \in PhoneBodies, t \in PhoneTrails}

EntryPaths == {"web_query", "web_process", "me_api", "sync_api"}

Received(path, raw) == [stage |-> "received", path |-> path, raw |-> raw]
Rejected(e) == [stage |-> "rejected", path |-> e.path, raw |-> e.raw]
Keyed(e, key) == [stage |-> "keyed", path |-> e.path, raw |-> e.raw, key |-> key]

\* the variables of the cache layer and of the other layers, at rest
CacheAtRest ==
  /\ me_data = {}
  /\ sync_data = {}
  /\ now = 0
  /\ pc = [p \in Procs |-> "idle"]
  /\ args = [p \in Procs |-> NoArgs]
  /\ db_result = [p \in Procs |-> None]
  /\ flattened = [p \in Procs |-> EmptyDict]
  /\ res = [p \in Procs |-> None]
  /\ ncalls = [p \in Procs |-> 0]
  /\ nwrites = [p \in Procs |-> 0]
  /\ http = [p \in Procs |-> 0]
  /\ pre = [p \in Procs |-> {}]
  /\ committed = {}
  /\ last = None
  /\ prev = [p \in Procs |-> None]
  /\ nlookups = 0

cache_vars == <<me_data, sync_data, now, pc, args, db_result, flattened, res,
                ncalls, nwrites, http, pre, committed, last, prev, nlookups>>

InitEntry ==
  /\ CacheAtRest
  /\ entry \in {Received(path, raw) : path \in EntryPaths, raw \in RawPhones}
  /\ web = None
  /\ sc = None
  /\ nick = None
  /\ tr = None
  /\ us = None

\* web_query: strip, refuse the empty text, convert, refuse what is not
\* twelve digits beginning with the dial code
web_query_phone ==
  /\ entry.stage = "received" /\ entry.path = "web_query"
  /\ LET phone == strip(entry.raw) IN
       IF phone = <<>> THEN entry' = Rejected(entry)
       ELSE LET converted == convert_to_international(phone) IN
              IF ~validate_phone_numbers(converted)
                THEN entry' = Rejected(entry)
                ELSE entry' = Keyed(entry, converted)
  /\ UNCHANGED <<cache_vars, web, sc, aux>>

\* web_process, for one row: the row keeps the stripped text it was read with,
\* is_valid_phone judges it, and the kept text is what is converted
web_process_phone ==
  /\ entry.stage = "received" /\ entry.path = "web_process"
  /\ LET phone == strip(entry.raw) IN
       IF phone = <<>> \/ ~is_valid_phone(phone)
         THEN entry' = Rejected(entry)
         ELSE entry' = Keyed(entry, convert_to_international(phone))
  /\ UNCHANGED <<cache_vars, web, sc, aux>>

\* REST /me: the phone of the JSON body is the key as it came
me_api_phone ==
  /\ entry.stage = "received" /\ entry.path = "me_api"
  /\ LET phone == entry.raw IN
       IF phone = <<>> THEN entry' = Rejected(entry)
       ELSE entry' = Keyed(entry, phone)
  /\ UNCHANGED <<cache_vars, web, sc, aux>>

\* REST /sync: the same
sync_api_phone ==
  /\ entry.stage = "received" /\ entry.path = "sync_api"
  /\ LET phone == entry.raw IN
       IF phone = <<>> THEN entry' = Rejected(entry)
       ELSE entry' = Keyed(entry, phone)
  /\ UNCHANGED <<cache_vars, web, sc, aux>>

NextEntry ==
  \/ web_query_phone
  \/ web_process_phone
  \/ me_api_phone
  \/ sync_api_phone

SpecEntry == InitEntry /\ [][NextEntry]_vars

\* the canonical form: digits only, beginning with the dial code
IsCanonical(k) == isdigit(k) /\ startswith(k, DialCode)

\* the one canonical text of the number a text denotes: separators and '+'
\* dropped, the trunk zero of the local form replaced by the dial code
CanonicalOf(raw) ==
  LET bare == replace(replace(replace(raw, "-"), " "), "+") IN
    IF startswith(bare, DialCode) THEN bare
    ELSE IF startswith(bare, <<"0">>) THEN DialCode \o Tail(bare)
    ELSE DialCode \o bare

\* C14: every text an entry path uses as a cache key is canonical, and it is
\* the canonical text of the number the caller's input denotes, so inputs that
\* denote the same number are keyed alike
C14_KeysAreCanonical ==
  entry # None /\ entry.stage = "keyed" =>
    /\ IsCanonical(entry.key)
    /\ entry.key = CanonicalOf(entry.raw)

\* a batch row written with a hyphen has been accepted and keyed
C14_Witness ==
  /\ entry # None /\ entry.stage = "keyed" /\ entry.path = "web_process"
  /\ entry.raw = <<"0", "5", "0", "-">> \o SubSeq(Subscriber, 3, 9)

\* ---------------------------------------------------------------------------
\* The web layer: single query and batch file processing over the providers
\* ---------------------------------------------------------------------------

MaxItems == 2

\* the provider registry: _PROVIDERS holds one MEProvider and one SyncProvider
Providers == {"me", "sync"}
NoProvider == "<no provider>"
get_provider(name) == IF name \in Providers THEN name ELSE NoProvider

\* provider.is_configured: whether the provider's credentials are all set; the
\* environment of request w decides it
is_configured_always(w, provider) == TRUE
is_configured(w, provider) == provider \in w.configured

get_primary_name_key(provider) ==
  IF provider = "me" THEN "me.common_name" ELSE "sync.first_name"

\* the name each provider holds for the number
ProviderName(provider) == IF provider = "me" THEN "Dan Levi" ELSE "Dan"

\* lookup(provider, db, phone, cal_name, refresh_days, cache_only): the ways
\* one call can end, each with the cache and API operations it has performed.
\* A fresh record is returned from the cache; with cache_only and no fresh
\* record the sentinel is returned; otherwise the provider is called, and the
\* answer is stored and returned, or ApiError leaves the call
lookup(provider, cache_only) ==
  LET key == get_primary_name_key(provider)
      Ends(kind, value, api_called, from_cache, ops) ==
        [kind |-> kind,
         provider_data |-> IF kind = "return" THEN [k \in {key} |-> value] ELSE EmptyDict,
         error |-> IF kind = "raise" THEN value ELSE "",
         api_called |-> api_called, from_cache |-> from_cache, ops |-> ops]
  IN {Ends("return", ProviderName(provider), FALSE, TRUE, {"read"})}
     \cup (IF cache_only
             THEN {Ends("return", NOT_IN_CACHE, FALSE, FALSE, {"read"})}
             ELSE {Ends("return", ProviderName(provider), TRUE, FALSE,
                        {"read", "call", "write"}),
                   Ends("return", "", TRUE, FALSE, {"read", "call", "write"}),
                   Ends("raise", "API call failed", FALSE, FALSE, {"read", "call"})})

\* dict.update
update(d, e) == [k \in DOMAIN d \cup DOMAIN e |-> IF k \in DOMAIN e THEN e[k] ELSE d[k]]

\* f"ERROR: {e}"
ErrorMark(out) == "ERROR: " \o out.error

\* the comma-separated provider names a request may carry
SelectedApis ==
  {<<"me">>, <<"sync">>, <<"me", "sync">>, <<"sync", "me">>, <<"me", "other">>}

WebPaths == {"web_query", "web_process"}

\* a web request as it arrives: the providers it selects, the providers whose
\* credentials the environment holds, the providers it restricts to the cache,
\* and the number of phone items it carries (one for a single query)
WebRequests ==
  {[path |-> path, selected |-> sel, configured |-> conf, cache_only |-> co,
    nitems |-> n, stage |-> "start", active |-> <<>>, i |-> 1, k |-> 1,
    result |-> EmptyDict, results |-> <<>>, io |-> {}, raised |-> {}, returned |-> {}] :
     path \in WebPaths, sel \in SelectedApis, conf \in SUBSET Providers,
     co \in SUBSET Providers, n \in 1..MaxItems}

InitWeb ==
  /\ CacheAtRest
  /\ entry = None
  /\ web \in {w \in WebRequests : w.path = "web_query" => w.nitems = 1}
  /\ sc = None
  /\ nick = None
  /\ tr = None
  /\ us = None

\* what the lookup that ended as out leaves in the bookkeeping of request w
Noted(w, provider, out) ==
  [w EXCEPT !.io = @ \cup {<<w.i, provider, op>> : op \in out.ops},
            !.raised = IF out.kind = "raise" THEN @ \cup {<<w.i, provider>>} ELSE @,
            !.returned = IF out.kind = "return"
                           THEN @ \cup {<<w.i, provider,
                                          out.provider_data[get_primary_name_key(provider)]>>}
                           ELSE @]

\* the start of a result row: phone_number and cal_name
NewResult == [k \in {"phone_number", "cal_name"} |-> "given"]

\* web_query, up to the provider loop
web_query_start ==
  /\ web.path = "web_query" /\ web.stage = "start"
  /\ web' = [web EXCEPT !.stage = "loop", !.result = NewResult]
  /\ UNCHANGED <<cache_vars, entry, sc, aux>>

\* web_query, one turn of the provider loop: an unknown or unconfigured
\* provider is passed over; a lookup that raises marks this provider's result
web_query_provider ==
  /\ web.path = "web_query" /\ web.stage = "loop" /\ web.k <= Len(web.selected)
  /\ LET api_name == web.selected[web.k]
         provider == get_provider(api_name)
     IN IF provider = NoProvider \/ ~is_configured(web, provider)
          THEN web' = [web EXCEPT !.k = @ + 1]
          ELSE \E out \in lookup(provider, api_name \in web.cache_only) :
                 LET w == Noted(web, provider, out) IN
                   IF out.kind = "return"
                     THEN web' = [w EXCEPT !.result = update(@, out.provider_data),
                                           !.k = @ + 1]
                     ELSE web' = [w EXCEPT
                                    !.result = Put(Put(@, get_primary_name_key(provider),
                                                       ErrorMark(out)),
                                                   provider \o ".matching", 0),
                                    !.k = @ + 1]
  /\ UNCHANGED <<cache_vars, entry, sc, aux>>

\* web_query answers with the result
web_query_return ==
  /\ web.path = "web_query" /\ web.stage = "loop" /\ web.k > Len(web.selected)
  /\ web' = [web EXCEPT !.stage = "done", !.results = <<web.result>>]
  /\ UNCHANGED <<cache_vars, entry, sc, aux>>

\* web_process keeps the selected providers that are configured, and refuses
\* the request when none is
web_process_filter ==
  /\ web.path = "web_process" /\ web.stage = "start"
  /\ LET active_providers ==
           SelectSeq(web.selected,
                     LAMBDA api_name : get_provider(api_name) # NoProvider
                                       /\ is_configured(web, get_provider(api_name)))
     IN IF active_providers = <<>>
          THEN web' = [web EXCEPT !.stage = "refused"]
          ELSE web' = [web EXCEPT !.stage = "loop", !.active = active_providers,
                                  !.result = NewResult]
  /\ UNCHANGED <<cache_vars, entry, sc, aux>>

\* web_process, one lookup of the row being processed. One try block holds the
\* loop over the row's providers: a lookup that raises ends the row, and the
\* handler writes the error into the primary name of every active provider
web_process_provider ==
  /\ web.path = "web_process" /\ web.stage = "loop"
  /\ web.i <= web.nitems /\ web.k <= Len(web.active)
  /\ LET provider == web.active[web.k] IN
       \E out \in lookup(provider, provider \in web.cache_only) :
         LET w == Noted(web, provider, out)
             marked == [key \in DOMAIN w.result
                               \cup {get_primary_name_key(web.active[j]) :
                                       j \in 1..Len(web.active)} |->
                          IF \E j \in 1..Len(web.active) :
                               key = get_primary_name_key(web.active[j])
                            THEN ErrorMark(out)
                            ELSE w.result[key]]
         IN IF out.kind = "return"
              THEN LET result == Put(update(w.result, out.provider_data),
                                     provider \o ".source",
                                     IF out.api_called THEN "API"
                                     ELSE IF out.from_cache THEN "cache"
                                     ELSE "cache-only")
                   IN IF w.k < Len(w.active)
                        THEN web' = [w EXCEPT !.result = result, !.k = @ + 1]
                        ELSE web' = [w EXCEPT !.results = Append(@, result),
                                              !.result = NewResult,
                                              !.i = @ + 1, !.k = 1]
              ELSE web' = [w EXCEPT !.results = Append(@, marked),
                                    !.result = NewResult, !.i = @ + 1, !.k = 1]
  /\ UNCHANGED <<cache_vars, entry, sc, aux>>

\* web_process has been through every row and builds its answer
web_process_return ==
  /\ web.path = "web_process" /\ web.stage = "loop" /\ web.i > web.nitems
  /\ web' = [web EXCEPT !.stage = "done"]
  /\ UNCHANGED <<cache_vars, entry, sc, aux>>

NextWeb ==
  \/ web_query_start
  \/ web_query_provider
  \/ web_query_return
  \/ web_process_filter
  \/ web_process_provider
  \/ web_process_return

SpecWeb == InitWeb /\ [][NextWeb]_vars

\* the providers of request w that are registered and configured, in the order
\* the request names them
Configured(w) ==
  SelectSeq(w.selected, LAMBDA a : a \in Providers /\ a \in w.configured)
InSeq(x, seq) == \E j \in 1..Len(seq) : seq[j] = x
Before(x, y, seq) ==
  \E j, l \in 1..Len(seq) : j < l /\ seq[j] = x /\ seq[l] = y

\* C15: no cache read, API call or cache write is ever made for a provider
\* that is not configured, and skipping it stops nothing: a request with a
\* configured provider is answered, and each item is taken through its
\* configured providers (the batch handler leaves an item at the first lookup
\* that raises)
C15_UnconfiguredNeverTouched ==
  web # None =>
    /\ \A t \in web.io : t[2] \in web.configured
    /\ Configured(web) # <<>> => web.stage # "refused"
    /\ web.stage = "done" =>
         \A i \in 1..web.nitems : \A j \in 1..Len(Configured(web)) :
           LET n == Configured(web)[j] IN
             \/ <<i, n, "read">> \in web.io
             \/ /\ web.path = "web_process"
                /\ \E m \in Providers : Before(m, n, Configured(web)) /\ <<i, m>> \in web.raised

\* a finished request that named an unconfigured provider before a configured
\* one, and looked the configured one up
C15_Witness ==
  /\ web # None /\ web.stage = "done"
  /\ \E u, n \in Providers :
       /\ u \notin web.configured /\ n \in web.configured
       /\ Before(u, n, web.selected)
       /\ <<1, n, "call">> \in web.io

\* C16: when a lookup raises for one provider and one item, that provider's
\* result for that item alone is marked 'ERROR: ...': every configured
\* provider is looked up for every item, a provider whose lookup returned keeps
\* what it returned, and every item has its result
C16_ErrorMarksOnlyItsProvider ==
  web # None /\ web.stage = "done" =>
    /\ Len(web.results) = web.nitems
    /\ \A i \in 1..web.nitems : \A j \in 1..Len(Configured(web)) :
         LET n == Configured(web)[j]
             mine == Get(web.results[i], get_primary_name_key(n), "")
         IN /\ <<i, n, "read">> \in web.io
            /\ <<i, n>> \in web.raised => mine = "ERROR: API call failed"
            /\ \A t \in web.returned : t[1] = i /\ t[2] = n => mine = t[3]

\* a batch has ended in which, for the first row, one provider returned its
\* name and the next provider's lookup raised
C16_Witness ==
  /\ web # None /\ web.stage = "done" /\ web.path = "web_process"
  /\ \E m, n \in Providers :
       /\ Before(m, n, Configured(web))
       /\ <<1, m, "Dan Levi">> \in web.returned \/ <<1, m, "Dan">> \in web.returned
       /\ <<1, n>> \in web.raised

\* ---------------------------------------------------------------------------
\* The scoring engine (scoring.py): score_match and score_multi_api
\* ---------------------------------------------------------------------------

\* _default_config. The two weights are in hundredths (0.65 and 0.35), and so
\* is every base score computed with them
default_config ==
  [weights |-> [last_name |-> 65, first_name |-> 35],
   match_types |-> [exact |-> 100, nickname |-> 90, transliteration_exact |-> 95,
                    transliteration_fuzzy_high |-> 80, fuzzy_high |-> 75,
                    fuzzy_medium |-> 50, fuzzy_low |-> 25, no_match |-> 0],
   risk_tiers |-> [high_confidence |-> [min |-> 85, label |-> "HIGH"],
                   medium_confidence |-> [min |-> 60, label |-> "MEDIUM"],
                   low_confidence |-> [min |-> 35, label |-> "LOW"],
                   no_match |-> [min |-> 0, label |-> "VERY LOW"]],
   bonuses |-> [both_names_exact |-> 5, multi_api_agreement |-> 5],
   penalties |-> [only_first_name_match |-> 0 - 10]]

\* str.split(): the words between runs of whitespace
RECURSIVE split(_)
split(s) ==
  LET t == lstrip(s) IN
    IF t = <<>> THEN <<>>
    ELSE LET n == CHOOSE n \in 1..(Len(t) + 1) :
                    /\ \A m \in 1..(n - 1) : t[m] \notin Whitespace
                    /\ n = Len(t) + 1 \/ t[n] \in Whitespace
         IN <<SubSeq(t, 1, n - 1)>> \o split(SubSeq(t, n, Len(t)))

\* " ".join(words)
RECURSIVE join(_)
join(words) ==
  IF words = <<>> THEN <<>>
  ELSE IF Len(words) = 1 THEN words[1]
  ELSE words[1] \o <<" ">> \o join(Tail(words))

\* what a matcher returns: the fixed score of its match type
MatchResult(match_type) ==
  [score |-> default_config.match_types[match_type], match_type |-> match_type]
NoResult(match_type) == [score |-> 0, match_type |-> match_type]

\* what the transliteration, the fuzzy ratio and, for given names, the
\* nickname table make of two words that are not equal: the match type the
\* matcher ends in. These libraries and tables are outside the engine, so
\* their verdict is an input of a scoring call
WordSimilarities ==
  {"transliteration_exact", "transliteration_fuzzy_high", "fuzzy_high",
   "fuzzy_medium", "fuzzy_low", "no_match"}
NameSimilarities == WordSimilarities \cup {"nickname"}

\* _match_single_word_internal
match_single_word_internal(cal_word, api_word, similarity) ==
  IF strip(cal_word) = strip(api_word) THEN MatchResult("exact")
  ELSE MatchResult(similarity)

\* words of a surname that the matcher never compares
SkipWords == {<<"-">>, <<"l", "t", "d">>}

\* _match_single_name
match_single_name(cal_word, api_word, sim, is_first_name) ==
  IF cal_word = <<>> \/ api_word = <<>> THEN NoResult("no_match")
  ELSE LET cal_clean == strip(cal_word)
           api_clean == strip(api_word)
       IN IF ~is_first_name
            THEN LET Words(text) == {w \in {split(text)[j] : j \in 1..Len(split(text))} :
                                       Len(w) > 1}
                     cal_words == Words(cal_clean)
                     api_words == Words(api_clean)
                     found == {match_single_word_internal(cal_w, api_w, sim.last) :
                                 cal_w \in cal_words, api_w \in api_words \ SkipWords}
                 IN IF cal_words = {} \/ api_words = {} THEN NoResult("no_match")
                    ELSE IF \E r \in found : r.score > 0
                      THEN CHOOSE r \in found : \A o \in found : r.score >= o.score
                      ELSE NoResult("no_match")
            ELSE IF cal_clean = api_clean THEN MatchResult("exact")
            ELSE MatchResult(sim.first)

\* ScoreEngine._get_risk_tier
get_risk_tier_low_first(score) ==
  LET tiers == default_config.risk_tiers IN
    IF score >= tiers.low_confidence.min THEN tiers.low_confidence
    ELSE IF score >= tiers.high_confidence.min THEN tiers.high_confidence
    ELSE IF score >= tiers.medium_confidence.min THEN tiers.medium_confidence
    ELSE tiers.no_match
get_risk_tier(score) ==
  LET tiers == default_config.risk_tiers IN
    IF score >= tiers.high_confidence.min THEN tiers.high_confidence
    ELSE IF score >= tiers.medium_confidence.min THEN tiers.medium_confidence
    ELSE IF score >= tiers.low_confidence.min THEN tiers.low_confidence
    ELSE IF score >= tiers.no_match.min THEN tiers.no_match
    ELSE tiers.no_match

\* ScoreEngine._empty_result
empty_result_low_tier(reason) ==
  [kind |-> "result", final_score |-> 0, risk_tier |-> "LOW",
   risk_action |-> "High risk - no data to verify identity",
   breakdown |-> [reason |-> reason], explanation |-> "Score: 0 - " \o reason]
empty_result(reason) ==
  [kind |-> "result", final_score |-> 0, risk_tier |-> "VERY LOW",
   risk_action |-> "High risk - no data to verify identity",
   breakdown |-> [reason |-> reason], explanation |-> "Score: 0 - " \o reason]

\* a Python exception leaving the engine
Raises(error) == [kind |-> "raise", error |-> error]

\* int(): truncation toward zero, of a value given in hundredths
int100(x) == IF x >= 0 THEN x \div 100 ELSE 0 - ((0 - x) \div 100)

Max(a, b) == IF a >= b THEN a ELSE b
Min(a, b) == IF a <= b THEN a ELSE b

\* the best of the matches of the given-name parts against one provider word
BestOf(results) ==
  IF \E r \in results : r.score > 0
    THEN CHOOSE r \in results : \A o \in results : r.score >= o.score
    ELSE [score |-> 0, match_type |-> "no_match"]

\* score_match, the penalty step: the points taken off
only_first_name_penalty_strict(first_result, last_result, cal_last, api_last) ==
  IF first_result.score > 75 /\ last_result.score = 0 /\ cal_last # <<>> /\ api_last # <<>>
    THEN IF default_config.penalties.only_first_name_match < 0
           THEN 0 - default_config.penalties.only_first_name_match
           ELSE default_config.penalties.only_first_name_match
    ELSE 0
only_first_name_penalty(first_result, last_result, cal_last, api_last) ==
  IF first_result.score >= 75 /\ last_result.score = 0 /\ cal_last # <<>> /\ api_last # <<>>
    THEN IF default_config.penalties.only_first_name_match < 0
           THEN 0 - default_config.penalties.only_first_name_match
           ELSE default_config.penalties.only_first_name_match
    ELSE 0

\* the value of Op at v, with v computed once
With(v, Op(_)) == CHOOSE r \in {Op(x) : x \in {v}} : TRUE

\* score_match, lines 395-415, cutting after the first word
parse_names_first_word_given(cal_name, api_first, api_last, api_common_name) ==
  With([cal_parts |-> IF cal_name # <<>> THEN split(strip(cal_name)) ELSE <<>>,
        api_common_parts |->
          IF api_common_name # <<>> THEN split(strip(api_common_name)) ELSE <<>>],
       LAMBDA t :
         [cal_parts |-> t.cal_parts,
          cal_last |-> IF Len(t.cal_parts) >= 2 THEN join(Tail(t.cal_parts)) ELSE <<>>,
          cal_first |-> IF Len(t.cal_parts) >= 1 THEN t.cal_parts[1] ELSE <<>>,
          cal_first_parts_bound |-> Len(t.cal_parts) >= 2,
          cal_first_parts |-> IF Len(t.cal_parts) >= 1 THEN <<t.cal_parts[1]>> ELSE <<>>,
          api_common_parts |-> t.api_common_parts,
          api_first |-> IF api_first = <<>> /\ t.api_common_parts # <<>>
                          THEN t.api_common_parts[1] ELSE api_first,
          api_last |-> IF api_last = <<>> /\ Len(t.api_common_parts) >= 2
                         THEN join(Tail(t.api_common_parts)) ELSE api_last])

\* score_match, lines 395-415: the claimed name is cut into given name and
\* surname, and the provider's blank first and last names are filled from its
\* common name. cal_first_parts is assigned only when the claimed name has two
\* words or more
parse_names(cal_name, api_first, api_last, api_common_name) ==
  With([cal_parts |-> IF cal_name # <<>> THEN split(strip(cal_name)) ELSE <<>>,
        api_common_parts |->
          IF api_common_name # <<>> THEN split(strip(api_common_name)) ELSE <<>>],
       LAMBDA t :
         [cal_parts |-> t.cal_parts,
          cal_last |-> IF Len(t.cal_parts) >= 2 THEN t.cal_parts[Len(t.cal_parts)]
                       ELSE <<>>,
          cal_first |-> IF Len(t.cal_parts) >= 2
                          THEN join(SubSeq(t.cal_parts, 1, Len(t.cal_parts) - 1))
                        ELSE IF Len(t.cal_parts) = 1 THEN t.cal_parts[1]
                        ELSE <<>>,
          cal_first_parts_bound |-> Len(t.cal_parts) >= 2,
          cal_first_parts |-> SubSeq(t.cal_parts, 1, Len(t.cal_parts) - 1),
          api_common_parts |-> t.api_common_parts,
          api_first |-> IF api_first = <<>> /\ t.api_common_parts # <<>>
                          THEN t.api_common_parts[1] ELSE api_first,
          api_last |-> IF api_last = <<>> /\ Len(t.api_common_parts) >= 2
                         THEN join(Tail(t.api_common_parts)) ELSE api_last])

\* score_match, lines 421-456: the surname and the given name are scored
match_components(n, sim) ==
  [last_name |->
     IF n.cal_last # <<>> /\ n.api_last # <<>>
       THEN match_single_name(n.cal_last, n.api_last, sim, FALSE)
     ELSE IF n.cal_last = <<>> THEN NoResult("no_input")
     ELSE NoResult("no_api_data"),
   first_name |->
     IF n.cal_first # <<>> /\ n.api_first # <<>>
       THEN LET Parts == {n.cal_first_parts[j] : j \in 1..Len(n.cal_first_parts)} IN
              BestOf({match_single_name(part, n.api_first, sim, TRUE) : part \in Parts}
                     \cup IF n.api_common_parts # <<>>
                             /\ n.api_common_parts[1] # n.api_first
                            THEN {match_single_name(part, n.api_common_parts[1], sim, TRUE) :
                                    part \in Parts}
                            ELSE {})
     ELSE IF n.cal_first = <<>> THEN NoResult("no_input")
     ELSE NoResult("no_api_data")]

\* score_match, lines 458-469: the weighted combination, in hundredths
base_score(n, m, api_common_name) ==
  LET w_last == default_config.weights.last_name
      w_first == default_config.weights.first_name
  IN IF n.cal_last = <<>> \/ (n.api_last = <<>> /\ api_common_name = <<>>)
       THEN 100 * m.first_name.score
     ELSE IF n.cal_first = <<>> THEN 100 * m.last_name.score
     ELSE m.last_name.score * w_last + m.first_name.score * w_first

\* round(x, 1) of a value given in hundredths: the nearest tenth, a half going
\* to the even tenth, as Python rounds every base score the default scores make
round1(x) ==
  LET q == x \div 10
      r == x % 10
  IN 10 * (IF r < 5 THEN q ELSE IF r > 5 THEN q + 1 ELSE IF q % 2 = 0 THEN q ELSE q + 1)

\* _build_explanation, lines 640-641: the number of the 'Base score' line
build_explanation_base(first_result, last_result) ==
  round1(last_result.score * default_config.weights.last_name
         + first_result.score * default_config.weights.first_name)

\* score_match, lines 471-536: bonus, penalty, final score and tier
combine(n, m, api_common_name) ==
  LET exact_types == {"exact", "transliteration_exact", "nickname"}
      bonus == IF m.first_name.match_type \in exact_types
                  /\ m.last_name.match_type \in exact_types
                 THEN default_config.bonuses.both_names_exact ELSE 0
      penalty == only_first_name_penalty(m.first_name, m.last_name, n.cal_last, n.api_last)
      base == base_score(n, m, api_common_name)
  IN With(Max(0, Min(100, int100(base + 100 * bonus - 100 * penalty))),
          LAMBDA final_score :
            [kind |-> "result", final_score |-> final_score,
             risk_tier |-> get_risk_tier(final_score).label,
             breakdown |-> [api_first |-> n.api_first, api_last |-> n.api_last,
                            first_name |-> m.first_name, last_name |-> m.last_name,
                            base_score |-> base, bonus |-> bonus, penalty |-> penalty],
             explanation |-> "Final score: " \o ToString(final_score) \o " -> "
                             \o get_risk_tier(final_score).label,
             explained_base |-> build_explanation_base(m.first_name, m.last_name)])

\* ScoreEngine.score_match. The given-name loop reads cal_first_parts whenever
\* both sides have a given name, assigned or not
score_match(cal_name, api_first, api_last, api_common_name, sim) ==
  With(parse_names(cal_name, api_first, api_last, api_common_name),
       LAMBDA n :
         IF Len(n.cal_parts) = 0 THEN empty_result("Empty customer name")
         ELSE IF n.api_first = <<>> /\ n.api_last = <<>>
           THEN empty_result("No name returned from API")
         ELSE IF n.cal_first # <<>> /\ n.api_first # <<>> /\ ~n.cal_first_parts_bound
           THEN Raises("UnboundLocalError: cal_first_parts")
         ELSE With(match_components(n, sim),
                   LAMBDA m : combine(n, m, api_common_name)))

\* score_multi_api, lines 571-600: the best score, the agreement bonus, the tier
combine_multi_bonus_always(has_me, has_sync, me_score, sync_score) ==
  LET best == IF has_me /\ (~has_sync \/ me_score.final_score >= sync_score.final_score)
                THEN me_score ELSE sync_score
      final_score ==
        IF has_me /\ has_sync
          THEN Min(100, best.final_score + default_config.bonuses.multi_api_agreement)
          ELSE best.final_score
  IN [kind |-> "result", final_score |-> final_score,
      risk_tier |-> get_risk_tier(final_score).label,
      best_source |-> IF best = me_score /\ has_me THEN "me" ELSE "sync",
      me_score |-> IF has_me THEN me_score.final_score ELSE 0 - 1,
      sync_score |-> IF has_sync THEN sync_score.final_score ELSE 0 - 1]
combine_multi(has_me, has_sync, me_score, sync_score) ==
  LET best_key == IF has_me /\ (~has_sync \/ me_score.final_score >= sync_score.final_score)
                    THEN "me" ELSE "sync"
      best == IF best_key = "me" THEN me_score ELSE sync_score
      final_score ==
        IF has_me /\ has_sync /\ me_score.final_score >= 60 /\ sync_score.final_score >= 60
          THEN Min(100, best.final_score + default_config.bonuses.multi_api_agreement)
          ELSE best.final_score
  IN [kind |-> "result", final_score |-> final_score,
      risk_tier |-> get_risk_tier(final_score).label,
      best_source |-> best_key,
      me_score |-> IF has_me THEN me_score.final_score ELSE 0 - 1,
      sync_score |-> IF has_sync THEN sync_score.final_score ELSE 0 - 1]

\* ScoreEngine.score_multi_api: each provider that has a name is scored, and
\* an exception of score_match leaves score_multi_api as well
score_multi_api(cal_name, me_result, sync_result, sim_me, sim_sync) ==
  LET has_me == me_result # None
                /\ (me_result.first_name # <<>> \/ me_result.last_name # <<>>
                    \/ me_result.common_name # <<>>)
      has_sync == sync_result # None
                  /\ (sync_result.first_name # <<>> \/ sync_result.last_name # <<>>)
  IN With([me |-> IF has_me
                    THEN score_match(cal_name, me_result.first_name, me_result.last_name,
                                     me_result.common_name, sim_me)
                    ELSE None,
           sync |-> IF has_sync
                      THEN score_match(cal_name, sync_result.first_name,
                                       sync_result.last_name, <<>>, sim_sync)
                      ELSE None],
          LAMBDA results :
            IF has_me /\ results.me.kind = "raise" THEN results.me
            ELSE IF has_sync /\ results.sync.kind = "raise" THEN results.sync
            ELSE IF ~has_me /\ ~has_sync THEN empty_result("No API data available")
            ELSE combine_multi(has_me, has_sync, results.me, results.sync))

\* the names of the scoring calls
Sp == <<" ">>
Dan == <<"d", "a", "n">>
Dana == <<"d", "a", "n", "a">>
Avi == <<"a", "v", "i">>
Levi == <<"l", "e", "v", "i">>
Cohen == <<"c", "o", "h", "e", "n">>
Ltd == <<"l", "t", "d">>

ClaimedNames ==
  {<<>>, Sp, Dan, Dan \o Sp \o Levi, Sp \o Dan \o Sp \o Sp \o Levi \o Sp,
   Avi \o Sp \o Dan \o Sp \o Levi}
ApiFirsts == {<<>>, Dan, Dana}
ApiLasts == {<<>>, Levi, Cohen, Levi \o Sp \o Ltd}
ApiCommons == {<<>>, Dan, Dan \o Sp \o Levi}
Sims == {[first |-> f, last |-> l] : f \in NameSimilarities, l \in WordSimilarities}
FewSims == {[first |-> f, last |-> l] : f \in {"fuzzy_high", "fuzzy_medium", "no_match"},
                                        l \in {"fuzzy_high", "no_match"}}
MeResults ==
  {None,
   [first_name |-> <<>>, last_name |-> <<>>, common_name |-> <<>>],
   [first_name |-> Dan, last_name |-> Levi, common_name |-> <<>>],
   [first_name |-> Dana, last_name |-> Levi, common_name |-> <<>>],
   [first_name |-> <<>>, last_name |-> <<>>, common_name |-> Dan]}
SyncResults ==
  {None,
   [first_name |-> Dan, last_name |-> Cohen],
   [first_name |-> Dana, last_name |-> Levi]}

ScoreCalls ==
  {[fn |-> "score_match", cal_name |-> c, api_first |-> f, api_last |-> l,
    api_common_name |-> n, sim |-> s] :
     c \in ClaimedNames, f \in ApiFirsts, l \in ApiLasts, n \in ApiCommons, s \in Sims}
MultiCalls ==
  {[fn |-> "score_multi_api", cal_name |-> c, me_result |-> m, sync_result |-> y,
    sim_me |-> s, sim_sync |-> t] :
     c \in {<<>>, Dan, Dan \o Sp \o Levi}, m \in MeResults, y \in SyncResults,
     s \in FewSims, t \in FewSims}

InitScore ==
  /\ CacheAtRest
  /\ entry = None
  /\ web = None
  /\ \/ sc \in {[stage |-> "called", args |-> a, result |-> None] : a \in ScoreCalls}
     \/ sc \in {[stage |-> "called", args |-> a, result |-> None] : a \in MultiCalls}
  /\ nick = None
  /\ tr = None
  /\ us = None

score_match_call ==
  /\ sc.stage = "called" /\ sc.args.fn = "score_match"
  /\ LET a == sc.args IN
       sc' = [sc EXCEPT !.stage = "ended",
                        !.result = score_match(a.cal_name, a.api_first, a.api_last,
                                               a.api_common_name, a.sim)]
  /\ UNCHANGED <<cache_vars, entry, web, aux>>

score_multi_api_call ==
  /\ sc.stage = "called" /\ sc.args.fn = "score_multi_api"
  /\ LET a == sc.args IN
       sc' = [sc EXCEPT !.stage = "ended",
                        !.result = score_multi_api(a.cal_name, a.me_result, a.sync_result,
                                                   a.sim_me, a.sim_sync)]
  /\ UNCHANGED <<cache_vars, entry, web, aux>>

NextScore ==
  \/ score_match_call
  \/ score_multi_api_call

SpecScore == InitScore /\ [][NextScore]_vars

\* what a scoring call was given, read from its arguments alone
Ended(fn) == sc # None /\ sc.stage = "ended" /\ sc.args.fn = fn
IsBlank(text) == \A j \in 1..Len(text) : text[j] \in Whitespace
ClaimedSurname(a) ==
  IF Len(split(a.cal_name)) >= 2 THEN split(a.cal_name)[Len(split(a.cal_name))] ELSE <<>>
ClaimedGiven(a) ==
  IF Len(split(a.cal_name)) >= 1 THEN split(a.cal_name)[1] ELSE <<>>
ProviderGiven(a) ==
  IF a.api_first # <<>> THEN a.api_first
  ELSE IF Len(split(a.api_common_name)) >= 1 THEN split(a.api_common_name)[1]
  ELSE <<>>
ProviderSurname(a) ==
  IF a.api_last # <<>> THEN a.api_last
  ELSE IF Len(split(a.api_common_name)) >= 2 THEN join(Tail(split(a.api_common_name)))
  ELSE <<>>
NoProviderName(a) ==
  a.api_first = <<>> /\ a.api_last = <<>> /\ a.api_common_name = <<>>

\* C17: when the claimed name is empty or only whitespace, or the provider's
\* first name, last name and common name are all empty, score_match does not
\* raise: it returns final_score 0, tier VERY LOW and a reason
C17_EmptyNamesScoreZero ==
  Ended("score_match") /\ (IsBlank(sc.args.cal_name) \/ NoProviderName(sc.args)) =>
    /\ sc.result.kind = "result"
    /\ sc.result.final_score = 0
    /\ sc.result.risk_tier = "VERY LOW"
    /\ "reason" \in DOMAIN sc.result.breakdown
    /\ sc.result.breakdown.reason # ""
    /\ sc.result.explanation # ""

\* a whitespace-only claimed name has been scored against a provider that
\* holds a full name
C17_Witness ==
  /\ Ended("score_match")
  /\ sc.args.cal_name = Sp /\ sc.args.api_first = Dan /\ sc.args.api_last = Levi
  /\ sc.result.kind = "result" /\ sc.result.final_score = 0

\* C18: with a surname and a given name on both sides the base score is
\* weight_last * surname score + weight_first * given score; when the claimed
\* name or the provider lacks the surname, or lacks the given name, the base
\* score is the other component's score at full weight
C18_BaseScoreWeights ==
  Ended("score_match") /\ ~IsBlank(sc.args.cal_name) /\ ~NoProviderName(sc.args) =>
    /\ sc.result.kind = "result"
    /\ LET a == sc.args
           b == sc.result.breakdown
           surnames == ClaimedSurname(a) # <<>> /\ ProviderSurname(a) # <<>>
           givens == ClaimedGiven(a) # <<>> /\ ProviderGiven(a) # <<>>
       IN IF surnames /\ givens
            THEN b.base_score = default_config.weights.last_name * b.last_name.score
                                + default_config.weights.first_name * b.first_name.score
          ELSE IF ~surnames THEN b.base_score = 100 * b.first_name.score
          ELSE b.base_score = 100 * b.last_name.score

\* a provider that returned a given name and no surname has been scored
\* against a claimed name of two words
C18_Witness ==
  /\ Ended("score_match") /\ sc.result.kind = "result"
  /\ ClaimedSurname(sc.args) # <<>>
  /\ ProviderGiven(sc.args) # <<>> /\ ProviderSurname(sc.args) = <<>>

\* C19: the only-first-name penalty, 10 points, is taken off the score exactly
\* when the given-name score is 75 or more, the surname score is 0 and both the
\* claimed name and the provider have a surname; otherwise nothing is taken off
C19_PenaltyExactlyWhen ==
  Ended("score_match") /\ sc.result.kind = "result" =>
    IF "penalty" \in DOMAIN sc.result.breakdown
      THEN LET a == sc.args
               b == sc.result.breakdown
               due == /\ b.first_name.score >= 75
                      /\ b.last_name.score = 0
                      /\ ClaimedSurname(a) # <<>>
                      /\ ProviderSurname(a) # <<>>
               off == IF due THEN 10 ELSE 0
           IN /\ b.penalty = off
              /\ sc.result.final_score =
                   Max(0, Min(100, (b.base_score + 100 * b.bonus - 100 * off) \div 100))
      ELSE sc.result.final_score = 0

\* a given name scored exactly 75 beside a surname that scored 0, and the
\* penalty was taken off
C19_Witness ==
  /\ Ended("score_match") /\ sc.result.kind = "result"
  /\ "penalty" \in DOMAIN sc.result.breakdown
  /\ sc.result.breakdown.first_name.score = 75
  /\ sc.result.breakdown.last_name.score = 0
  /\ sc.result.breakdown.penalty = 10

\* C20: every result of score_match and of score_multi_api has an integer
\* final_score in 0..100, and its tier is the label of the highest threshold
\* the score reaches: HIGH from 85, MEDIUM from 60, LOW from 35, else VERY LOW
C20_ScoreRangeAndTier ==
  sc # None /\ sc.stage = "ended" /\ sc.result.kind = "result" =>
    /\ sc.result.final_score \in 0..100
    /\ LET thresholds == {<<85, "HIGH">>, <<60, "MEDIUM">>, <<35, "LOW">>, <<0, "VERY LOW">>}
           reached == {t \in thresholds : sc.result.final_score >= t[1]}
       IN \E t \in reached :
            /\ \A o \in reached : t[1] >= o[1]
            /\ sc.result.risk_tier = t[2]

\* two providers both scored 60 or more and the agreement bonus lifted the
\* combined score over a threshold
C20_Witness ==
  /\ Ended("score_multi_api") /\ sc.result.kind = "result"
  /\ "me_score" \in DOMAIN sc.result
  /\ sc.result.me_score >= 60 /\ sc.result.sync_score >= 60
  /\ sc.result.final_score > sc.result.me_score
  /\ sc.result.final_score > sc.result.sync_score
  /\ sc.result.risk_tier = "HIGH"

\* what the providers of a combined call hold, read from its arguments alone
HasNames(r, keys) == r # None /\ \E k \in keys : r[k] # <<>>
MeAlone(a) ==
  score_match(a.cal_name, a.me_result.first_name, a.me_result.last_name,
              a.me_result.common_name, a.sim_me)
SyncAlone(a) ==
  score_match(a.cal_name, a.sync_result.first_name, a.sync_result.last_name,
              <<>>, a.sim_sync)

\* C21: score_multi_api returns the larger of the available single-provider
\* scores, plus 5 and capped at 100 exactly when both providers have a score
\* and both scores are 60 or more; with one provider it returns that
\* provider's score, and with none the zero result with tier VERY LOW
C21_BestScoreAndAgreementBonus ==
  Ended("score_multi_api") /\ sc.result.kind = "result" =>
    LET a == sc.args
        has_me == HasNames(a.me_result, {"first_name", "last_name", "common_name"})
        has_sync == HasNames(a.sync_result, {"first_name", "last_name"})
    IN IF has_me /\ has_sync
         THEN LET m == MeAlone(a).final_score
                  y == SyncAlone(a).final_score
              IN sc.result.final_score =
                   IF m >= 60 /\ y >= 60 THEN Min(100, Max(m, y) + 5) ELSE Max(m, y)
       ELSE IF has_me THEN sc.result.final_score = MeAlone(a).final_score
       ELSE IF has_sync THEN sc.result.final_score = SyncAlone(a).final_score
       ELSE sc.result.final_score = 0 /\ sc.result.risk_tier = "VERY LOW"

\* both providers scored 60 or more, and the combined score is the larger one
\* plus the bonus, below the cap
C21_Witness ==
  /\ Ended("score_multi_api") /\ sc.result.kind = "result"
  /\ "me_score" \in DOMAIN sc.result
  /\ sc.result.me_score >= 60 /\ sc.result.sync_score >= 60
  /\ sc.result.final_score = Max(sc.result.me_score, sc.result.sync_score) + 5
  /\ sc.result.final_score < 100

\* the words of the claimed name of a scoring call, and how the call cut them
ClaimedWords(a) == split(a.cal_name)
Cut(a) == parse_names(a.cal_name, a.api_first, a.api_last, a.api_common_name)

\* C22: for every non-empty claimed name the last word is the claimed surname
\* and the remaining words, possibly none, are the claimed given name, so a
\* claimed name of one word is the surname
C22_LastWordIsSurname ==
  Ended("score_match") /\ ClaimedWords(sc.args) # <<>> =>
    LET words == ClaimedWords(sc.args) IN
      /\ Cut(sc.args).cal_last = words[Len(words)]
      /\ Cut(sc.args).cal_first = join(SubSeq(words, 1, Len(words) - 1))

\* C22, amended: for a claimed name of two words or more the last word is the
\* claimed surname and the remaining words the claimed given name; a claimed
\* name of one word is the given name and there is no claimed surname, so a
\* result never holds a surname comparison for it
C22_LastWordIsSurnameOfSeveral ==
  Ended("score_match") /\ ClaimedWords(sc.args) # <<>> =>
    LET words == ClaimedWords(sc.args) IN
      IF Len(words) >= 2
        THEN /\ Cut(sc.args).cal_last = words[Len(words)]
             /\ Cut(sc.args).cal_first = join(SubSeq(words, 1, Len(words) - 1))
        ELSE /\ Cut(sc.args).cal_first = words[1]
             /\ Cut(sc.args).cal_last = <<>>
             /\ sc.result.kind = "result" /\ "last_name" \in DOMAIN sc.result.breakdown
                  => sc.result.breakdown.last_name.match_type = "no_input"

\* a claimed name of one word has been scored against a provider that holds a
\* surname only, and a result came back
C22_Witness ==
  /\ Ended("score_match") /\ Len(ClaimedWords(sc.args)) = 1
  /\ sc.args.api_last = Levi
  /\ sc.result.kind = "result" /\ "last_name" \in DOMAIN sc.result.breakdown

\* ---------------------------------------------------------------------------
\* The nickname table (src/db.py, src/routes/nicknames.py)
\*
\* Table nicknames has an autoincrement id and no uniqueness constraint, so it
\* is a sequence of rows in insertion order.  The comma-separated text of
\* column all_names is held as the list of names that split(',') and strip()
\* make of it.
\* ---------------------------------------------------------------------------

MaxRows == 3

\* the names of the model, in the order sorted() gives them
NickOrder == <<"avi", "avraham", "avram">>
NickNames == {NickOrder[i] : i \in DOMAIN NickOrder}
Blank == ""

InList(n, list) == \E i \in DOMAIN list : list[i] = n
NamesOf(list) == {list[i] : i \in DOMAIN list}
sorted(S) == SelectSeq(NickOrder, LAMBDA n : n \in S)

NickLists == {<<"avi">>, <<"avi", "avraham">>, <<"avraham", "avram">>,
              <<"avi", "avraham", "avram">>}
NickEntries == {[formal_name |-> f, all_names |-> l] : f \in NickNames, l \in NickLists}

\* get_all_nicknames_for_name: the name itself, and every name of every row
\* that holds the name as its formal name or in its list
get_all_nicknames_for_name(rows, name) ==
  {name} \cup UNION {{rows[i].formal_name} \cup NamesOf(rows[i].all_names) :
                       i \in {j \in DOMAIN rows :
                                \/ name = rows[j].formal_name
                                \/ InList(name, rows[j].all_names)}}

\* the INSERT loop of load_nicknames_from_json inside its try block: an entry
\* without one of the two keys raises KeyError at that entry
RECURSIVE insert_entries(_, _)
insert_entries(rows, entries) ==
  IF entries = <<>> THEN [raised |-> FALSE, rows |-> rows]
  ELSE IF ~({"formal_name", "all_names"} \subseteq DOMAIN Head(entries))
       THEN [raised |-> TRUE, rows |-> rows]
       ELSE insert_entries(Append(rows, [formal_name |-> Head(entries).formal_name,
                                         all_names |-> Head(entries).all_names]),
                           Tail(entries))

\* a seed load that does not look at the row count first
load_nicknames_from_json_unguarded(rows, file) ==
  IF ~file.exists THEN [rows |-> rows, loaded |-> 0, outcome |-> "missing"]
  ELSE LET t == insert_entries(rows, file.entries) IN
       IF t.raised THEN [rows |-> rows, loaded |-> 0, outcome |-> "failed"]
       ELSE [rows |-> t.rows, loaded |-> Len(file.entries), outcome |-> "loaded"]

\* load_nicknames_from_json: nothing when the table has a row or the file is
\* missing; otherwise insert every entry and commit, or roll back to the
\* committed (empty) table when an entry raises
load_nicknames_from_json(rows, file) ==
  IF Len(rows) > 0 THEN [rows |-> rows, loaded |-> 0, outcome |-> "skipped"]
  ELSE IF ~file.exists THEN [rows |-> rows, loaded |-> 0, outcome |-> "missing"]
  ELSE LET t == insert_entries(rows, file.entries) IN
       IF t.raised THEN [rows |-> rows, loaded |-> 0, outcome |-> "failed"]
       ELSE [rows |-> t.rows, loaded |-> Len(file.entries), outcome |-> "loaded"]

HasFormal(rows, f) == \E i \in DOMAIN rows : rows[i].formal_name = f
FirstOf(rows, f) == rows[CHOOSE i \in DOMAIN rows :
                           /\ rows[i].formal_name = f
                           /\ \A j \in DOMAIN rows : rows[j].formal_name = f => i <= j]

\* UPDATE nicknames SET all_names = ? WHERE formal_name = ?
UpdateAllNames(rows, f, l) ==
  [i \in DOMAIN rows |-> IF rows[i].formal_name = f
                         THEN [rows[i] EXCEPT !.all_names = l] ELSE rows[i]]

\* the body of web_nicknames_save after its two emptiness checks
SaveRow(rows, f, l) ==
  IF HasFormal(rows, f) THEN UpdateAllNames(rows, f, l)
  ELSE Append(rows, [formal_name |-> f, all_names |-> l])

\* one turn of the loop of web_nicknames_upload
UploadRow(rows, row, mode) ==
  IF row.formal_name = Blank \/ row.all_names = <<>> THEN rows
  ELSE IF HasFormal(rows, row.formal_name)
       THEN IF mode = "overwrite"
            THEN UpdateAllNames(rows, row.formal_name, row.all_names)
            ELSE UpdateAllNames(rows, row.formal_name,
                                sorted(NamesOf(FirstOf(rows, row.formal_name).all_names)
                                       \cup NamesOf(row.all_names)))
       ELSE Append(rows, [formal_name |-> row.formal_name, all_names |-> row.all_names])

RECURSIVE UploadRows(_, _, _)
UploadRows(rows, file, mode) ==
  IF file = <<>> THEN rows
  ELSE UploadRows(UploadRow(rows, Head(file), mode), Tail(file), mode)

\* the loop of web_nicknames_restore after DELETE FROM nicknames
RestoreRows(file) ==
  SelectSeq(file, LAMBDA row : row.formal_name # Blank /\ row.all_names # <<>>)

\* the files and request bodies of the model
BrokenEntry == [all_names |-> <<"avi">>]
SeedEntries == {[formal_name |-> "avraham", all_names |-> <<"avi", "avraham">>],
                [formal_name |-> "avram", all_names |-> <<"avraham", "avram">>]}
SeedFiles ==
  {[exists |-> FALSE, entries |-> <<>>]}
  \cup {[exists |-> TRUE, entries |-> <<e>>] : e \in SeedEntries}
  \cup {[exists |-> TRUE, entries |-> <<e, f>>] : e \in SeedEntries, f \in SeedEntries}
  \cup {[exists |-> TRUE, entries |-> <<e, BrokenEntry>>] : e \in SeedEntries}
SheetRows == SeedEntries \cup {[formal_name |-> "avi", all_names |-> <<"avi">>],
                               [formal_name |-> Blank, all_names |-> <<"avi">>],
                               [formal_name |-> "avi", all_names |-> <<>>]}
Sheets == {<<r>> : r \in SheetRows} \cup {<<r, q>> : r \in SheetRows, q \in SheetRows}
UploadModes == {"add", "overwrite"}

InitNick ==
  /\ CacheAtRest
  /\ entry = None
  /\ web = None
  /\ sc = None
  /\ tr = None
  /\ us = None
  /\ nick = [rows |-> <<>>, last |-> [op |-> "none", outcome |-> "none"]]

nick_frame == <<cache_vars, entry, web, sc, tr, us>>

\* server.py module start-up: init_nickname_table, then the seed load
server_start ==
  \E file \in SeedFiles :
    LET r == load_nicknames_from_json(nick.rows, file) IN
    /\ nick' = [rows |-> r.rows, last |-> [op |-> "start", outcome |-> r.outcome]]
    /\ UNCHANGED nick_frame

web_nicknames_save ==
  \E f \in NickNames \cup {Blank}, l \in NickLists \cup {<<>>} :
    /\ HasFormal(nick.rows, f) \/ Len(nick.rows) < MaxRows
    /\ nick' = IF f = Blank \/ l = <<>>
               THEN [nick EXCEPT !.last = [op |-> "save", outcome |-> "rejected"]]
               ELSE [rows |-> SaveRow(nick.rows, f, l),
                     last |-> [op |-> "save", outcome |-> "saved"]]
    /\ UNCHANGED nick_frame

web_nicknames_upload ==
  \E file \in Sheets, mode \in UploadModes :
    /\ Len(UploadRows(nick.rows, file, mode)) <= MaxRows
    /\ nick' = [rows |-> UploadRows(nick.rows, file, mode),
                last |-> [op |-> "upload", outcome |-> mode]]
    /\ UNCHANGED nick_frame

web_nicknames_delete ==
  \E f \in NickNames \cup {Blank} :
    /\ nick' = IF f = Blank
               THEN [nick EXCEPT !.last = [op |-> "delete", outcome |-> "rejected"]]
               ELSE [rows |-> SelectSeq(nick.rows, LAMBDA row : row.formal_name # f),
                     last |-> [op |-> "delete",
                               outcome |-> IF HasFormal(nick.rows, f)
                                           THEN "deleted" ELSE "not found"]]
    /\ UNCHANGED nick_frame

web_nicknames_restore ==
  \E file \in SeedFiles :
    /\ nick' = IF ~file.exists \/ \E i \in DOMAIN file.entries : file.entries[i] = BrokenEntry
               THEN [nick EXCEPT !.last = [op |-> "restore", outcome |-> "error"]]
               ELSE [rows |-> RestoreRows(file.entries),
                     last |-> [op |-> "restore", outcome |-> "restored"]]
    /\ UNCHANGED nick_frame

NextNick ==
  \/ server_start
  \/ web_nicknames_save
  \/ web_nicknames_upload
  \/ web_nicknames_delete
  \/ web_nicknames_restore

SpecNick == InitNick /\ [][NextNick]_vars

\* two names appear together in one stored row
TogetherInARow(rows, a, b) ==
  \E i \in DOMAIN rows :
    {a, b} \subseteq {rows[i].formal_name} \cup NamesOf(rows[i].all_names)

\* C23: for every reachable content of the nickname table and every two names
\* that appear together in one stored row, the nickname expansions of the two
\* names are the same set.
C23_RowMatesExpandAlike ==
  nick # None =>
    \A a \in NickNames, b \in NickNames :
      TogetherInARow(nick.rows, a, b) =>
        get_all_nicknames_for_name(nick.rows, a) = get_all_nicknames_for_name(nick.rows, b)

\* a table where two names share a row and a second row holds one of them
C23_Witness ==
  /\ nick # None
  /\ nick.last.op = "save"
  /\ Len(nick.rows) = 2
  /\ TogetherInARow(nick.rows, "avi", "avraham")
  /\ TogetherInARow(nick.rows, "avraham", "avram")
  /\ ~TogetherInARow(nick.rows, "avi", "avram")

\* C24: a server start that finds at least one row in the nickname table adds,
\* changes and removes nothing; a start changes the table only when it found
\* it empty; and a seed load that fails part-way leaves the table empty.
C24_SeedOnlyIntoEmptyTable ==
  [][(nick # None /\ nick'.last.op = "start") =>
       /\ Len(nick.rows) > 0 => nick'.rows = nick.rows
       /\ nick'.rows # nick.rows => Len(nick.rows) = 0
       /\ nick'.last.outcome = "failed" => nick'.rows = <<>>]_vars

\* a start that found rows left by an edit and skipped the seed load
C24_Witness ==
  /\ nick # None
  /\ nick.last = [op |-> "start", outcome |-> "skipped"]
  /\ HasFormal(nick.rows, "avi")

\* ---------------------------------------------------------------------------
\* Transliteration to Hebrew (src/transliteration.py) and the scoring of a
\* Hebrew claimed name against a provider's Latin name (src/scoring.py)
\*
\* A text is a sequence of one-character strings, as in the layers above.
\* ---------------------------------------------------------------------------

MaxWord == 3

\* apply_final_letter_rules: the five letters that have a final form
final_letter_map ==
  "כ" :> "ך" @@ "מ" :> "ם" @@ "נ" :> "ן" @@ "פ" :> "ף" @@ "צ" :> "ץ"

\* russian_to_hebrew: its table, letter by letter. A Cyrillic or an Arabic
\* letter is written as its code point
russian_map ==
  "U+0410" :> <<"א">> @@ "U+0430" :> <<"א">> @@ "U+0411" :> <<"ב">> @@ "U+0431" :> <<"ב">> @@
  "U+0412" :> <<"ו">> @@ "U+0432" :> <<"ו">> @@ "U+0413" :> <<"ג">> @@ "U+0433" :> <<"ג">> @@
  "U+0414" :> <<"ד">> @@ "U+0434" :> <<"ד">> @@ "U+0415" :> <<"א">> @@ "U+0435" :> <<"א">> @@
  "U+0401" :> <<"י", "ו">> @@ "U+0451" :> <<"י", "ו">> @@ "U+0416" :> <<"ז">> @@ "U+0436" :> <<"ז">> @@
  "U+0417" :> <<"ז">> @@ "U+0437" :> <<"ז">> @@ "U+0418" :> <<"י">> @@ "U+0438" :> <<"י">> @@
  "U+0419" :> <<"י">> @@ "U+0439" :> <<"י">> @@ "U+041A" :> <<"ק">> @@ "U+043A" :> <<"ק">> @@
  "U+041B" :> <<"ל">> @@ "U+043B" :> <<"ל">> @@ "U+041C" :> <<"מ">> @@ "U+043C" :> <<"מ">> @@
  "U+041D" :> <<"נ">> @@ "U+043D" :> <<"נ">> @@ "U+041E" :> <<"ו">> @@ "U+043E" :> <<"ו">> @@
  "U+041F" :> <<"פ">> @@ "U+043F" :> <<"פ">> @@ "U+0420" :> <<"ר">> @@ "U+0440" :> <<"ר">> @@
  "U+0421" :> <<"ס">> @@ "U+0441" :> <<"ס">> @@ "U+0422" :> <<"ת">> @@ "U+0442" :> <<"ת">> @@
  "U+0423" :> <<"ו">> @@ "U+0443" :> <<"ו">> @@ "U+0424" :> <<"פ">> @@ "U+0444" :> <<"פ">> @@
  "U+0425" :> <<"ח">> @@ "U+0445" :> <<"ח">> @@ "U+0426" :> <<"צ">> @@ "U+0446" :> <<"צ">> @@
  "U+0427" :> <<"צ">> @@ "U+0447" :> <<"צ">> @@ "U+0428" :> <<"ש">> @@ "U+0448" :> <<"ש">> @@
  "U+0429" :> <<"ש", "צ">> @@ "U+0449" :> <<"ש", "צ">> @@ "U+042A" :> <<>> @@ "U+044A" :> <<>> @@
  "U+042B" :> <<"י">> @@ "U+044B" :> <<"י">> @@ "U+042C" :> <<>> @@ "U+044C" :> <<>> @@
  "U+042D" :> <<"א">> @@ "U+044D" :> <<"א">> @@ "U+042E" :> <<"י", "ו">> @@ "U+044E" :> <<"י", "ו">> @@
  "U+042F" :> <<"י", "א">> @@ "U+044F" :> <<"י", "א">> @@ " " :> <<" ">>

\* arabic_to_hebrew: its table, letter by letter
arabic_map ==
  "U+0627" :> <<"א">> @@ "U+0628" :> <<"ב">> @@ "U+062A" :> <<"ת">> @@ "U+062B" :> <<"ת">> @@
  "U+062C" :> <<"ג">> @@ "U+062D" :> <<"ח">> @@ "U+062E" :> <<"ח">> @@ "U+062F" :> <<"ד">> @@
  "U+0630" :> <<"ד">> @@ "U+0631" :> <<"ר">> @@ "U+0632" :> <<"ז">> @@ "U+0633" :> <<"ס">> @@
  "U+0634" :> <<"ש">> @@ "U+0635" :> <<"צ">> @@ "U+0636" :> <<"צ">> @@ "U+0637" :> <<"ט">> @@
  "U+0638" :> <<"ט">> @@ "U+0639" :> <<"ע">> @@ "U+063A" :> <<"ע">> @@ "U+0641" :> <<"פ">> @@
  "U+0642" :> <<"ק">> @@ "U+0643" :> <<"כ">> @@ "U+0644" :> <<"ל">> @@ "U+0645" :> <<"מ">> @@
  "U+0646" :> <<"נ">> @@ "U+0647" :> <<"ה">> @@ "U+0648" :> <<"ו">> @@ "U+064A" :> <<"י">> @@
  "U+0621" :> <<"א">> @@ "U+0623" :> <<"א">> @@ "U+0625" :> <<"א">> @@ "U+0624" :> <<"ו">> @@
  "U+0626" :> <<"א">> @@ "U+0649" :> <<"א">> @@ "U+0629" :> <<"ה">> @@ "U+0622" :> <<"א">> @@
  " " :> <<" ">>

\* english_to_hebrew: the table of single letters
english_map ==
  "a" :> <<>> @@ "b" :> <<"ב">> @@ "c" :> <<"ק">> @@ "d" :> <<"ד">> @@
  "e" :> <<>> @@ "f" :> <<"פ">> @@ "g" :> <<"ג">> @@ "h" :> <<"ה">> @@
  "i" :> <<"י">> @@ "j" :> <<"ג", "׳">> @@ "k" :> <<"ק">> @@ "l" :> <<"ל">> @@
  "m" :> <<"מ">> @@ "n" :> <<"נ">> @@ "o" :> <<"ו">> @@ "p" :> <<"פ">> @@
  "q" :> <<"ק">> @@ "r" :> <<"ר">> @@ "s" :> <<"ס">> @@ "t" :> <<"ת">> @@
  "u" :> <<"ו">> @@ "v" :> <<"ו">> @@ "w" :> <<"ו">> @@ "x" :> <<"ק", "ס">> @@
  "y" :> <<"י">> @@ "z" :> <<"ז">> @@ " " :> <<" ">>

\* english_to_hebrew: the table of letter pairs
multi_char_map ==
  <<"c", "h">> :> <<"ח">> @@ <<"s", "h">> :> <<"ש">> @@ <<"t", "h">> :> <<"ת">> @@ <<"k", "h">> :> <<"ח">> @@
  <<"p", "h">> :> <<"פ">> @@ <<"o", "o">> :> <<"ו">> @@ <<"e", "e">> :> <<"י">> @@ <<"e", "i">> :> <<"י", "י">> @@
  <<"i", "e">> :> <<"י">> @@ <<"o", "u">> :> <<"ו">> @@ <<"a", "i">> :> <<"י", "י">> @@ <<"a", "y">> :> <<"י", "י">> @@
  <<"e", "y">> :> <<"י", "י">> @@ <<"a", "e">> :> <<"י", "י">> @@ <<"c", "k">> :> <<"ק">> @@ <<"t", "t">> :> <<"ת">> @@
  <<"d", "d">> :> <<"ד">> @@ <<"n", "n">> :> <<"נ">> @@ <<"m", "m">> :> <<"מ">> @@ <<"s", "s">> :> <<"ס">> @@
  <<"l", "l">> :> <<"ל">> @@ <<"r", "r">> :> <<"ר">> @@ <<"f", "f">> :> <<"פ">> @@ <<"p", "p">> :> <<"פ">> @@
  <<"b", "b">> :> <<"ב">> @@ <<"g", "g">> :> <<"ג">> @@ <<"c", "c">> :> <<"ק">>

\* str.lower() on the Latin capitals
LatinLower ==
  "A" :> "a" @@ "B" :> "b" @@ "C" :> "c" @@ "D" :> "d" @@ "E" :> "e" @@ "F" :> "f" @@
  "G" :> "g" @@ "H" :> "h" @@ "I" :> "i" @@ "J" :> "j" @@ "K" :> "k" @@ "L" :> "l" @@
  "M" :> "m" @@ "N" :> "n" @@ "O" :> "o" @@ "P" :> "p" @@ "Q" :> "q" @@ "R" :> "r" @@
  "S" :> "s" @@ "T" :> "t" @@ "U" :> "u" @@ "V" :> "v" @@ "W" :> "w" @@ "X" :> "x" @@
  "Y" :> "y" @@ "Z" :> "z"

\* detect_language: the Unicode blocks it tests, over the letters of the model.
\* The Arabic and the Cyrillic block each hold a letter their table lacks
HebrewBlock ==
  {"א", "ב", "ג", "ד", "ה", "ו", "ז", "ח", "ט", "י", "ך", "כ", "ל", "ם", "מ", "ן",
   "נ", "ס", "ע", "ף", "פ", "ץ", "צ", "ק", "ר", "ש", "ת", "׳"}
ArabicBlock == (DOMAIN arabic_map \ {" "}) \cup {"U+067E"}
LatinBlock == DOMAIN LatinLower \cup {LatinLower[c] : c \in DOMAIN LatinLower}
CyrillicBlock == (DOMAIN russian_map \ {" "}) \cup {"U+0456"}

\* detect_language: the block of the first character that has one
RECURSIVE detect_language(_)
detect_language(word) ==
  IF word = <<>> THEN "other"
  ELSE IF Head(word) \in HebrewBlock THEN "he"
  ELSE IF Head(word) \in ArabicBlock THEN "ar"
  ELSE IF Head(word) \in LatinBlock THEN "en"
  ELSE IF Head(word) \in CyrillicBlock THEN "ru"
  ELSE detect_language(Tail(word))

\* str.lower()
lower(s) == [i \in DOMAIN s |-> Get(LatinLower, s[i], s[i])]

\* apply_final_letter_rules
apply_final_letter_rules(hebrew_name) ==
  IF hebrew_name # <<>> /\ hebrew_name[Len(hebrew_name)] \in DOMAIN final_letter_map
    THEN SubSeq(hebrew_name, 1, Len(hebrew_name) - 1)
         \o <<final_letter_map[hebrew_name[Len(hebrew_name)]]>>
    ELSE hebrew_name

\* ''.join(transliteration_map.get(char, '') for char in name)
RECURSIVE MapLetters(_, _)
MapLetters(map, name) ==
  IF name = <<>> THEN <<>>
  ELSE Get(map, Head(name), <<>>) \o MapLetters(map, Tail(name))

russian_to_hebrew(name) == apply_final_letter_rules(MapLetters(russian_map, name))
arabic_to_hebrew(name) == apply_final_letter_rules(MapLetters(arabic_map, name))

\* the while loop of english_to_hebrew from position i on (positions from 1)
RECURSIVE english_scan(_, _)
english_scan(name, i) ==
  IF i > Len(name) THEN <<>>
  ELSE IF i < Len(name) /\ lower(SubSeq(name, i, i + 1)) \in DOMAIN multi_char_map
    THEN multi_char_map[lower(SubSeq(name, i, i + 1))] \o english_scan(name, i + 2)
  ELSE LET char == Get(LatinLower, name[i], name[i]) IN
         (IF char \in {"a", "e", "o", "u"} /\ i = 1 THEN <<"א">>
          ELSE Get(english_map, char, <<>>))
         \o english_scan(name, i + 1)

\* the common-name table is a set of pairs <<variant, hebrew_name>>
InTable(common_names, key) == \E e \in common_names : e[1] = key
TableValue(common_names, key) == (CHOOSE e \in common_names : e[1] = key)[2]

\* english_to_hebrew: the table first, returned as it stands; else the scan,
\* the trailing 'a', and the final-letter rule
english_to_hebrew(name, common_names) ==
  IF InTable(common_names, strip(lower(name)))
    THEN TableValue(common_names, strip(lower(name)))
  ELSE LET scanned == english_scan(name, 1)
           ended == IF name # <<>> /\ lower(name)[Len(name)] = "a"
                      THEN IF scanned # <<>> /\ scanned[Len(scanned)] = "א"
                             THEN SubSeq(scanned, 1, Len(scanned) - 1) \o <<"ה">>
                             ELSE scanned \o <<"ה">>
                      ELSE scanned
       IN apply_final_letter_rules(ended)

\* transliterate_name
transliterate_name(word, common_names) ==
  IF word = <<>> THEN <<>>
  ELSE LET language == detect_language(word) IN
         IF language = "ar" THEN arabic_to_hebrew(word)
         ELSE IF language = "en" THEN english_to_hebrew(word, common_names)
         ELSE IF language = "ru" THEN russian_to_hebrew(word)
         ELSE word

\* _transliterate_if_needed
transliterate_if_needed(word, common_names) ==
  IF word = <<>> THEN <<>>
  ELSE IF detect_language(word) = "he" THEN word
  ELSE transliterate_name(word, common_names)

\* _match_single_word_internal past its exact test: the match type of two
\* unequal words. The verdict of the fuzzy ratio is an input
word_similarity(cal_clean, api_clean, common_names, fuzzy) ==
  LET api_transliterated == transliterate_if_needed(api_clean, common_names)
      cal_transliterated == transliterate_if_needed(cal_clean, common_names)
  IN IF api_transliterated # <<>> /\ api_transliterated = cal_clean
       THEN "transliteration_exact"
     ELSE IF cal_transliterated # <<>> /\ cal_transliterated = api_clean
       THEN "transliteration_exact"
     ELSE fuzzy

\* _match_single_name for a given name past its exact test: the nickname step
\* when there is a connection, then the transliteration, then the fuzzy ratio
first_name_similarity(cal_clean, api_clean, conn, common_names, fuzzy) ==
  LET api_transliterated == transliterate_if_needed(api_clean, common_names)
      cal_variants == get_all_nicknames_for_name(conn.rows, cal_clean)
      api_variants ==
        get_all_nicknames_for_name(conn.rows, api_clean)
        \cup IF api_transliterated # <<>> /\ api_transliterated # api_clean
               THEN get_all_nicknames_for_name(conn.rows, api_transliterated)
               ELSE {}
  IN IF conn.connected
        /\ (cal_variants \cap api_variants # {} \/ api_transliterated \in cal_variants)
       THEN "nickname"
     ELSE word_similarity(cal_clean, api_clean, common_names, fuzzy)

\* the words, tables and connections of the model
David == <<"D", "a", "v", "i", "d">>
CohenLatin == <<"C", "o", "h", "e", "n">>
Philip == <<"P", "h", "i", "l", "i", "p">>
DavidHebrew == <<"ד", "ו", "ד">>
CohenHebrew == <<"כ", "ה", "ן">>
DanHebrew == <<"ד", "ן">>
NamesTables ==
  {{},
   {<<lower(David), DavidHebrew>>, <<lower(CohenLatin), CohenHebrew>>},
   {<<lower(Philip), <<"פ", "י", "ל", "י", "פ">>>>}}
WordsOver(letters) == UNION {[1..n -> letters] : n \in 1..MaxWord}
TranslitWords ==
  WordsOver({"D", "a", "n", "m", "p", "h", "s", "i", " "})
  \cup WordsOver({"U+0434", "U+0430", "U+043D", "U+043C", "U+0446", "U+044C", "U+0456"})
  \cup WordsOver({"U+0643", "U+0645", "U+0646", "U+0627", "U+0635", "U+067E"})
  \cup {<<>>, David, CohenLatin, Philip, DavidHebrew, <<"1", "2">>}
TranslitCalls ==
  {[fn |-> "transliterate_name", word |-> w, common_names |-> t] :
     w \in TranslitWords, t \in NamesTables}
Connections ==
  {[connected |-> FALSE, rows |-> <<>>],
   [connected |-> TRUE, rows |-> <<>>],
   [connected |-> TRUE,
    rows |-> <<[formal_name |-> DavidHebrew, all_names |-> <<DavidHebrew, <<"ד", "ו", "ד", "י">>>>]>>]}
FuzzyVerdicts == {"transliteration_fuzzy_high", "fuzzy_high", "fuzzy_medium",
                  "fuzzy_low", "no_match"}
HebrewScoreCalls ==
  {[fn |-> "score_match", cal_name |-> c, api_first |-> f, api_last |-> l,
    conn |-> k, common_names |-> t, fuzzy_first |-> x, fuzzy_last |-> y] :
     c \in {DavidHebrew \o Sp \o CohenHebrew, DanHebrew \o Sp \o CohenHebrew},
     f \in {David, DavidHebrew}, l \in {CohenLatin, CohenHebrew},
     k \in Connections, t \in NamesTables,
     x \in {"transliteration_fuzzy_high", "no_match"}, y \in {"fuzzy_low", "no_match"}}

InitTranslit ==
  /\ CacheAtRest
  /\ entry = None
  /\ web = None
  /\ sc = None
  /\ nick = None
  /\ us = None
  /\ \/ tr \in {[stage |-> "called", args |-> a, result |-> None] : a \in TranslitCalls}
     \/ tr \in {[stage |-> "called", args |-> a, result |-> None] : a \in HebrewScoreCalls}

translit_frame == <<cache_vars, entry, web, sc, nick, us>>

transliterate_name_call ==
  /\ tr.stage = "called" /\ tr.args.fn = "transliterate_name"
  /\ tr' = [tr EXCEPT !.stage = "returned",
                      !.result = transliterate_name(tr.args.word, tr.args.common_names)]
  /\ UNCHANGED translit_frame

\* ScoreEngine(conn).score_match on a claimed name of two words and a
\* provider's one-word first and last name
score_match_hebrew_call ==
  /\ tr.stage = "called" /\ tr.args.fn = "score_match"
  /\ LET a == tr.args
         cal_parts == split(strip(a.cal_name))
         sim == [first |-> first_name_similarity(cal_parts[1], strip(a.api_first), a.conn,
                                                 a.common_names, a.fuzzy_first),
                 last |-> word_similarity(cal_parts[2], strip(a.api_last),
                                          a.common_names, a.fuzzy_last)]
     IN tr' = [tr EXCEPT !.stage = "returned",
                         !.result = score_match(a.cal_name, a.api_first, a.api_last,
                                                <<>>, sim)]
  /\ UNCHANGED translit_frame

NextTranslit ==
  \/ transliterate_name_call
  \/ score_match_hebrew_call

SpecTranslit == InitTranslit /\ [][NextTranslit]_vars

TranslitEnded(fn) == tr # None /\ tr.stage = "returned" /\ tr.args.fn = fn

\* C25: for every input that detect_language sends down the Latin, the
\* Cyrillic or the Arabic path (the Latin names found in the common-name table
\* included), the returned text does not end with the non-final form of kaf,
\* mem, nun, pe or tsadi.
C25_NeverEndsNonFinal ==
  (TranslitEnded("transliterate_name")
     /\ detect_language(tr.args.word) \in {"en", "ru", "ar"}) =>
    (tr.result = <<>> \/ tr.result[Len(tr.result)] \notin DOMAIN final_letter_map)

\* a Latin name found in the common-name table has been transliterated
C25_Witness ==
  /\ TranslitEnded("transliterate_name")
  /\ detect_language(tr.args.word) = "en"
  /\ InTable(tr.args.common_names, strip(lower(tr.args.word)))
  /\ tr.result # <<>>

\* the scoring call of the example, with the two names in the common-name table
DavidCohenCall ==
  /\ TranslitEnded("score_match")
  /\ tr.args.cal_name = DavidHebrew \o Sp \o CohenHebrew
  /\ tr.args.api_first = David
  /\ tr.args.api_last = CohenLatin
  /\ InTable(tr.args.common_names, lower(David))
  /\ InTable(tr.args.common_names, lower(CohenLatin))

\* C26: scoring the claimed name 'דוד כהן' against provider first name 'David'
\* and last name 'Cohen' gives a transliteration-exact match for the given
\* name and for the surname, final score 100 and risk tier 'HIGH'.
C26_DavidCohenScores100 ==
  DavidCohenCall =>
    /\ tr.result.kind = "result"
    /\ tr.result.breakdown.first_name.match_type = "transliteration_exact"
    /\ tr.result.breakdown.last_name.match_type = "transliteration_exact"
    /\ tr.result.final_score = 100
    /\ tr.result.risk_tier = "HIGH"

\* the example scored by an engine that has a database connection
C26_Witness ==
  /\ DavidCohenCall
  /\ tr.args.conn.connected
  /\ tr.result.kind = "result"

\* a record stamped by a live call is followed by a record of the same key
\* that carries an earlier fetch time, or none
FetchTimeRegresses(old, new) ==
  \E r \in old, q \in new :
    /\ r.api_call_time # ""
    /\ q.phone_number = r.phone_number
    /\ \/ q.api_call_time = ""
       \/ FromIsoFormat(q.api_call_time) < FromIsoFormat(r.api_call_time)

\* C27: in every interleaving of lookups of one key, once the result of a
\* live call fetched at time t is stored, no later write gives the key's
\* record a fetch time earlier than t: the claimed-name update of a lookup
\* that read the older row never puts that row back over the newer one.
C27_FetchTimeNeverRegresses ==
  [][/\ ~FetchTimeRegresses(me_data, me_data')
     /\ ~FetchTimeRegresses(sync_data, sync_data')]_vars

\* a claimed-name update and a live save of the same key have both completed
\* in overlapping lookups
C27_Witness ==
  \E p \in Procs, q \in Procs :
    /\ p # q
    /\ Done(p) /\ Done(q)
    /\ args[p].path = "lookup_me" /\ args[q].path = "lookup_me"
    /\ ncalls[p] = 0 /\ nwrites[p] = 1
    /\ ncalls[q] = 1 /\ http[q] = HTTP_OK /\ nwrites[q] = 1
    /\ prev[p] = None /\ prev[q] = None

\* C28: a pipeline lookup that returns, returns one of three outcomes:
\* called_api and not from_cache, after exactly one provider call and one
\* cache write that left the key's record stamped no earlier than the record
\* it replaced; from_cache and not called_api, after no provider call; or
\* neither, which happens only in cache-only mode when the key had no record,
\* and then the primary name field is the NOT IN CACHE sentinel. The two flags
\* are never both true.
C28_ThreeOutcomes ==
  \A p \in Procs :
    (Done(p) /\ args[p].path \in PipelinePaths /\ res[p].kind = "return") =>
      \/ /\ res[p].api_called /\ ~res[p].from_cache
         /\ ncalls[p] = 1 /\ nwrites[p] = 1
         /\ Row(p) # None /\ Row(p).api_call_time # ""
         /\ FromIsoFormat(Row(p).api_call_time) <= now
         /\ (PreRow(p) # None /\ PreRow(p).api_call_time # "")
              => FromIsoFormat(Row(p).api_call_time)
                   >= FromIsoFormat(PreRow(p).api_call_time)
      \/ /\ ~res[p].api_called /\ res[p].from_cache
         /\ ncalls[p] = 0
         /\ PreRow(p) # None
      \/ /\ ~res[p].api_called /\ ~res[p].from_cache
         /\ ncalls[p] = 0 /\ nwrites[p] = 0
         /\ args[p].cache_only
         /\ PreRow(p) = None
         /\ res[p].result[PrimaryKey(args[p].path)] = NOT_IN_CACHE

\* each of the three outcomes has been returned: here the live call that
\* replaced an existing record
C28_Witness ==
  \E p \in Procs :
    /\ Done(p) /\ args[p].path \in PipelinePaths /\ res[p].kind = "return"
    /\ res[p].api_called /\ ~res[p].from_cache
    /\ PreRow(p) # None
    /\ Row(p) # PreRow(p)

\* C29: for every result of score_match that is not the empty result, the
\* 'Base score' of the explanation text equals breakdown.base_score (both
\* rounded to one decimal), and final_score is the integer part of that base
\* score plus the bonus less the penalty, clamped to 0..100; this also when
\* one name component is absent and the other has the full weight.
C29_ExplanationAgrees ==
  (Ended("score_match") /\ sc.result.kind = "result"
     /\ "base_score" \in DOMAIN sc.result.breakdown) =>
    /\ sc.result.explained_base = round1(sc.result.breakdown.base_score)
    /\ sc.result.final_score =
         Max(0, Min(100, int100(round1(sc.result.breakdown.base_score)
                                + 100 * sc.result.breakdown.bonus
                                - 100 * sc.result.breakdown.penalty)))

\* a result whose surname side is absent at the provider and whose given name
\* took the full weight
C29_Witness ==
  /\ Ended("score_match") /\ sc.result.kind = "result"
  /\ "breakdown" \in DOMAIN sc.result /\ "last_name" \in DOMAIN sc.result.breakdown
  /\ sc.result.breakdown.last_name.match_type = "no_api_data"
  /\ sc.result.breakdown.first_name.score = 100
  /\ sc.result.breakdown.base_score = 10000

\* ---------------------------------------------------------------------------
\* User administration (src/server.py web_users_update, src/functions.py)
\*
\* Table users is a function from the (normalised) user name to the row's two
\* flags. A request thread reads the table, decides, and then writes: the two
\* database operations are two steps, and other threads run in between.
\* ---------------------------------------------------------------------------

MaxRequests == 3

Usernames == {"alice", "bob"}
Threads == 1..NumProcs
Flag == {0, 1}
NotGiven == 2      \* a flag the request body does not carry (None)

UserTables == [Usernames -> [admin_flag : Flag, active_flag : Flag]]

\* the rows that are admin and active
active_admins(users) ==
  {u \in DOMAIN users : users[u].admin_flag = 1 /\ users[u].active_flag = 1}

\* update_user_flags: set the flags that are given, on the row of username
update_user_flags(users, username, admin_flag, active_flag) ==
  [u \in DOMAIN users |->
     IF u # username THEN users[u]
     ELSE [admin_flag |-> IF admin_flag = NotGiven THEN users[u].admin_flag ELSE admin_flag,
           active_flag |-> IF active_flag = NotGiven THEN users[u].active_flag
                           ELSE active_flag]]

\* web_users_update up to its write: the status it answers with, or 0 when it
\* goes on to update_user_flags
web_users_update_decide(users, session_user, username, admin_flag, active_flag) ==
  IF session_user \notin DOMAIN users THEN 302
  ELSE IF users[session_user].admin_flag # 1 THEN HTTP_FORBIDDEN
  ELSE IF username = "" THEN HTTP_BAD_REQUEST
  ELSE IF username \notin DOMAIN users THEN HTTP_NOT_FOUND
  ELSE IF active_flag = 0 /\ users[username].admin_flag = 1
          /\ Cardinality(active_admins(users)) <= 1
    THEN HTTP_BAD_REQUEST
  ELSE 0

IdleRequest == [pc |-> "idle", status |-> 0]

InitUsers ==
  /\ CacheAtRest
  /\ entry = None
  /\ web = None
  /\ sc = None
  /\ nick = None
  /\ tr = None
  /\ us \in {[users |-> t, req |-> [p \in Threads |-> IdleRequest], started |-> 0] :
               t \in {x \in UserTables : active_admins(x) # {}}}

users_frame == <<cache_vars, entry, web, sc, nick, tr>>

\* web_users_update, lines 859-885: require_admin, the look-up of the target
\* and the last-active-admin guard
web_users_update_check(p) ==
  /\ us.req[p].pc \in {"idle", "done"}
  /\ us.started < MaxRequests
  /\ \E session_user \in Usernames, username \in Usernames \cup {"", "mallory"},
        admin_flag \in Flag \cup {NotGiven}, active_flag \in Flag \cup {NotGiven} :
       LET status == web_users_update_decide(us.users, session_user, username,
                                             admin_flag, active_flag)
       IN us' = [us EXCEPT !.started = @ + 1,
                           !.req[p] = IF status # 0 THEN [pc |-> "done", status |-> status]
                                      ELSE [pc |-> "write", status |-> 0,
                                            username |-> username,
                                            admin_flag |-> admin_flag,
                                            active_flag |-> active_flag]]
  /\ UNCHANGED users_frame

\* web_users_update, lines 887-888: the write and the answer
web_users_update_write(p) ==
  /\ us.req[p].pc = "write"
  /\ us' = [us EXCEPT !.users = update_user_flags(@, us.req[p].username,
                                                  us.req[p].admin_flag,
                                                  us.req[p].active_flag),
                      !.req[p] = [pc |-> "done", status |-> HTTP_OK]]
  /\ UNCHANGED users_frame

NextUsers ==
  \/ \E p \in Threads : web_users_update_check(p)
  \/ \E p \in Threads : web_users_update_write(p)

SpecUsers == InitUsers /\ [][NextUsers]_vars

\* C30: once an active admin account exists, no sequence or interleaving of
\* user-update requests leaves the system without an account that is both
\* admin and active.
C30_AlwaysAnActiveAdmin ==
  us # None => active_admins(us.users) # {}

\* an update that deactivates one of two active admins has been written
C30_Witness ==
  /\ us # None
  /\ \E p \in Threads : us.req[p].pc = "done" /\ us.req[p].status = HTTP_OK
  /\ Cardinality(active_admins(us.users)) = 1
  /\ \E u \in Usernames : us.users[u].admin_flag = 1 /\ us.users[u].active_flag = 0
====
